---- MODULE Spec2Model ----
(***************************************************************************)
(* Model of the request-routing engine of core/bifrost.go: the dispatcher  *)
(* (handleRequest / tryRequest / tryStreamRequest), the per-provider       *)
(* bounded queue and worker pool (requestWorker), the plugin pipeline      *)
(* (RunPreHooks / RunPostHooks), the fallback cascade and the hot          *)
(* reconfiguration of a provider (UpdateProviderConcurrency).              *)
(*                                                                         *)
(* Optional values (Go nil pointers) and the one-slot channels are         *)
(* sequences of length at most one: <<>> is nil / an empty channel.        *)
(***************************************************************************)
EXTENDS Integers, Sequences, FiniteSets, TLC

\* ------------------------------------------------------------------ bounds
\* callers that dispatch concurrently
NumReqs == 3
\* registered plugins (len(bifrost.plugins))
NumPlugins == 2
\* longest fallback list of a request
MaxFallbacks == 2
\* largest NetworkConfig.MaxRetries
MaxRetriesBound == 1
\* largest ConcurrencyAndBufferSize.BufferSize
MaxBuf == 3
\* largest ConcurrencyAndBufferSize.Concurrency
MaxConc == 1
\* keys the account holds for a provider in the key scenarios
NumKeys == 2

Reqs == 1..NumReqs
Plugins == 1..NumPlugins

\* ---------------------------------------------------------------- data
\* Provider tags: the primary and the providers of the fallback entries.
ProviderTags == <<"openai", "anthropic", "cohere", "mistral", "groq">>
ModelNames == <<"gpt-4o-mini", "claude-3-sonnet", "command", "mistral-small", "llama3">>

PrimaryProvider == ProviderTags[1]
PrimaryModel == ModelNames[1]

\* The i-th fallback entry (schemas.Fallback: provider + model).
FallbackEntry(i) == [provider |-> ProviderTags[i + 1], model |-> ModelNames[i + 1]]

Providers == {ProviderTags[i] : i \in 1..(MaxFallbacks + 1)}

StreamKinds == {"chat_completion_stream", "speech_stream", "transcription_stream"}

isStreamRequestType(t) == t \in StreamKinds

\* retryableStatusCodes
retryableStatusCodes == {500, 502, 503, 504, 429}

RequestCancelled == "request_cancelled"

\* schemas.BifrostError. StatusCode 0, Type "" and AllowFallbacks "nil" are the
\* nil pointers; cause is Error.Error # nil; provider "" is the unset tag.
MkErr(bif, status, type, msg, cause, allow) ==
    [IsBifrostError |-> bif, StatusCode |-> status, Type |-> type,
     Message |-> msg, Cause |-> cause, AllowFallbacks |-> allow, Provider |-> ""]

\* schemas.BifrostResponse, identified by what produced it.
MkResp(by, provider, model) == [by |-> by, provider |-> provider, model |-> model]

\* newBifrostErrorFromMsg(message): an error built from a message alone.
newBifrostErrorFromMsg(msg) == MkErr(FALSE, 0, "", msg, FALSE, "nil")

\* newBifrostError(err): wraps a Go error.
newBifrostError(msg) == MkErr(TRUE, 0, "", msg, TRUE, "nil")

MsgCancelledWaiting == "request cancelled while waiting for queue space"
MsgQueueFull == "request dropped: queue is full"
MsgNilRequest == "bifrost request after plugin hooks cannot be nil"
MsgTransferFailed == "request failed during provider concurrency update"
MsgNoKeys == "no keys found that support model"
MsgNoKeysForProvider == "no keys found for provider"
MsgNoConfig == "failed to get config for provider"
MsgCreateFailed == "failed to create provider for the given key"
MsgInputMissing == "chats not provided for chat completion request"
MsgInvalidRequest == "invalid request"

\* ------------------------------------------------------- plugin pipeline
\* What a plugin's PreHook may do with the request it is handed.
PreBehaviours == {"pass", "error", "nilreq", "scResp", "scErr", "scErrNoFallback", "scEmpty"}
\* What a plugin's PostHook may do with (resp, err).
PostBehaviours == {"pass", "recover", "invalidate", "addError", "addEmptyError"}

IsShortCircuit(b) == b \in {"scResp", "scErr", "scErrNoFallback", "scEmpty"}

\* The PluginShortCircuit a pre-hook of plugin i returns.
ShortCircuitOf(b, i) ==
    CASE b = "scResp" -> [Response |-> <<MkResp("plugin", "", "")>>, Error |-> <<>>]
      [] b = "scErr" -> [Response |-> <<>>, Error |-> <<MkErr(FALSE, 0, "", "short-circuit", FALSE, "nil")>>]
      [] b = "scErrNoFallback" -> [Response |-> <<>>, Error |-> <<MkErr(FALSE, 0, "", "short-circuit", FALSE, "false")>>]
      [] OTHER -> [Response |-> <<>>, Error |-> <<>>]

\* RunPreHooks: the loop over p.plugins from plugin i on; reqNil is whether the
\* request handed to plugin i is nil, ran the plugins whose PreHook executed.
RECURSIVE PreLoop(_, _, _, _)
PreLoop(pre, i, reqNil, ran) ==
    IF i > Len(pre)
    THEN [reqNil |-> reqNil, sc |-> <<>>, count |-> Len(ran), ran |-> ran]
    ELSE LET nil == IF pre[i] = "nilreq" THEN TRUE ELSE reqNil
             ran2 == Append(ran, i)
         IN IF IsShortCircuit(pre[i])
            THEN [reqNil |-> nil, sc |-> <<ShortCircuitOf(pre[i], i)>>,
                  count |-> i, ran |-> ran2]
            ELSE PreLoop(pre, i + 1, nil, ran2)

RunPreHooks(pre) == PreLoop(pre, 1, FALSE, <<>>)

\* One PostHook call of a plugin behaving as b on (resp, err).
PostHookOf(b, resp, err) ==
    CASE b = "recover" /\ err # <<>> ->
            [resp |-> <<MkResp("recovered", "", "")>>, err |-> <<>>]
      [] b = "invalidate" /\ resp # <<>> ->
            [resp |-> <<>>, err |-> <<MkErr(FALSE, 0, "", "invalidated", FALSE, "nil")>>]
      [] b = "addError" ->
            [resp |-> resp, err |-> <<MkErr(FALSE, 0, "", "post-hook error", FALSE, "nil")>>]
      [] b = "addEmptyError" ->
            [resp |-> resp, err |-> <<MkErr(FALSE, 0, "", "", FALSE, "nil")>>]
      [] OTHER -> [resp |-> resp, err |-> err]

\* The structurally empty error of RunPostHooks' final reconciliation.
IsEmptyError(e) ==
    e.StatusCode = 0 /\ e.Type = "" /\ e.Message = "" /\ ~e.Cause

\* RunPostHooks: the loop from plugin i down to 1.
RECURSIVE PostLoop(_, _, _, _, _)
PostLoop(post, i, resp, err, ran) ==
    IF i < 1
    THEN [resp |-> resp, err |-> err, ran |-> ran]
    ELSE LET o == PostHookOf(post[i], resp, err)
         IN PostLoop(post, i - 1, o.resp, o.err, Append(ran, i))

ClampCount(count, n) == IF count < 0 THEN 0 ELSE IF count > n THEN n ELSE count

\* RunPostHooks with the final reconciliation letting the response win
\* whenever one is set.
RunPostHooksResponseWins(post, resp, err, count) ==
    LET o == PostLoop(post, ClampCount(count, Len(post)), resp, err, <<>>)
        left == [resp |-> o.resp, err |-> o.err]
    IN IF o.resp # <<>>
       THEN [resp |-> o.resp, err |-> <<>>, ran |-> o.ran, left |-> left]
       ELSE [resp |-> o.resp, err |-> o.err, ran |-> o.ran, left |-> left]

\* RunPostHooks(ctx, resp, bifrostErr, count); left is (resp, bifrostErr) as
\* the loop leaves them, before the final reconciliation (observation).
RunPostHooks(post, resp, err, count) ==
    LET o == PostLoop(post, ClampCount(count, Len(post)), resp, err, <<>>)
        left == [resp |-> o.resp, err |-> o.err]
    IN IF o.err # <<>>
       THEN IF o.resp # <<>> /\ IsEmptyError(o.err[1])
            THEN [resp |-> o.resp, err |-> <<>>, ran |-> o.ran, left |-> left]
            ELSE [resp |-> o.resp, err |-> o.err, ran |-> o.ran, left |-> left]
       ELSE [resp |-> o.resp, err |-> <<>>, ran |-> o.ran, left |-> left]


\* ------------------------------------------------------ fallback cascade
\* The request's ordered fallback list (req.Fallbacks), n entries long.
FallbacksOf(n) == [i \in 1..n |-> FallbackEntry(i)]

Stamp(e, provider) == [e EXCEPT !.Provider = provider]

IsCancelled(e) == e.Type = RequestCancelled

\* shouldTryFallbacks(req, primaryErr): whether the cascade starts, and the
\* primary error as the function leaves it (provider stamped when it returns false).
shouldTryFallbacks(nFallbacks, primaryErr) ==
    IF primaryErr = <<>>
    THEN [go |-> FALSE, err |-> <<>>]
    ELSE IF IsCancelled(primaryErr[1])
    THEN [go |-> FALSE, err |-> <<Stamp(primaryErr[1], PrimaryProvider)>>]
    ELSE IF primaryErr[1].AllowFallbacks = "false"
    THEN [go |-> FALSE, err |-> <<Stamp(primaryErr[1], PrimaryProvider)>>]
    ELSE IF nFallbacks = 0
    THEN [go |-> FALSE, err |-> <<Stamp(primaryErr[1], PrimaryProvider)>>]
    ELSE [go |-> TRUE, err |-> primaryErr]

\* shouldContinueWithFallbacks(fallback, fallbackErr).
shouldContinueWithFallbacks(fallback, fallbackErr) ==
    IF IsCancelled(fallbackErr)
    THEN [go |-> FALSE, err |-> Stamp(fallbackErr, fallback.provider)]
    ELSE IF fallbackErr.AllowFallbacks = "false"
    THEN [go |-> FALSE, err |-> Stamp(fallbackErr, fallback.provider)]
    ELSE [go |-> TRUE, err |-> fallbackErr]

\* A re-targeting that takes the fallback's provider but keeps the primary's
\* model: what prepareFallbackRequest would be without line 807.
prepareFallbackRequestKeepModel(fallback, noConfig) ==
    IF fallback.provider \in noConfig
    THEN <<>>
    ELSE <<[provider |-> fallback.provider, model |-> PrimaryModel]>>

\* prepareFallbackRequest(req, fallback): nil (<<>>) when the account has no
\* configuration for the fallback's provider, else the request re-targeted.
prepareFallbackRequest(fallback, noConfig) ==
    IF fallback.provider \in noConfig
    THEN <<>>
    ELSE <<[provider |-> fallback.provider, model |-> fallback.model]>>

\* The fallback loop of handleRequest from entry i on: the first entry that is
\* not skipped, or 0 when the list is exhausted.
RECURSIVE NextFallback(_, _, _)
NextFallback(i, nFallbacks, noConfig) ==
    IF i > nFallbacks THEN 0
    ELSE IF prepareFallbackRequest(FallbackEntry(i), noConfig) = <<>>
    THEN NextFallback(i + 1, nFallbacks, noConfig)
    ELSE i

\* ------------------------------------------------------------------ state
VARIABLES
    cfg,            \* the scenario: account configuration and request shape
    disp,           \* per caller: the dispatcher's position and locals
    ctxDone,        \* per caller: whether its cancellation token has fired
    chans,          \* per caller: the message's Response / Err / ResponseStream
    requestQueues,  \* bifrost.requestQueues: provider -> queue id (0: none)
    queues,         \* the queue objects: buffer, capacity, closed
    waitGroups,     \* bifrost.waitGroups: provider -> wait group id (0: none)
    wgs,            \* the wait group counters
    mutex,          \* providerMutexes: provider -> write-locked
    workers,        \* the requestWorker goroutines
    dropExcess,     \* bifrost.dropExcessRequests
    upd,            \* the UpdateProviderConcurrency call in progress
    cleanup,        \* the Cleanup call in progress
    hist            \* observation only: what ran, in which order

vars == <<cfg, disp, ctxDone, chans, requestQueues, queues, waitGroups, wgs,
          mutex, workers, dropExcess, upd, cleanup, hist>>

NoTry == [resp |-> <<>>, err |-> <<>>]

\* Channels handed out with a value left in the error sink by an earlier use.
StaleChans ==
    [Response |-> <<>>,
     Err |-> <<[IsBifrostError |-> FALSE, StatusCode |-> 0, Type |-> "", Message |-> "stale",
                Cause |-> FALSE, AllowFallbacks |-> "nil", Provider |-> ""]>>,
     ResponseStream |-> <<>>]

EmptyChans == [Response |-> <<>>, Err |-> <<>>, ResponseStream |-> <<>>]

\* A caller that has entered handleRequest / handleStreamRequest with a valid
\* request and is about to try the primary provider.
NewDispatcher ==
    [pc |-> "getQueue", try |-> 0, provider |-> PrimaryProvider, model |-> PrimaryModel,
     queue |-> 0, preCount |-> 0, sc |-> <<>>, res |-> NoTry, primaryErr |-> <<>>,
     out |-> NoTry]

UnusedDispatcher == [NewDispatcher EXCEPT !.pc = "unused"]

NewHist ==
    [preRan |-> <<>>, postRan |-> <<>>, ended |-> "", tried |-> <<>>, calls |-> 0,
     callLog |-> <<>>, admitted |-> FALSE, handled |-> FALSE, published |-> 0,
     sc |-> "", admitNo |-> 0, deqNo |-> 0, deqQueue |-> 0, buffered |-> FALSE,
     transferErr |-> FALSE, cancelledAtDeq |-> FALSE, inFlight |-> FALSE,
     postLeft |-> NoTry, created |-> FALSE, tools |-> "", keys |-> <<>>, key |-> <<>>,
     keyErr |-> "", adapterOut |-> ""]

Active(r) == disp[r].pc \notin {"unused", "done", "panic"}

\* The ChannelMessage of caller r's current try.
MsgOf(r) == [r |-> r, provider |-> disp[r].provider, model |-> disp[r].model,
             kind |-> cfg.kind]

\* ------------------------------------------------------ provider set-up
\* closes counts the close() calls made on the channel (observation).
NewQueue(cap) == [buf |-> <<>>, cap |-> cap, closed |-> FALSE, closes |-> 0]

NewWorker(p, q) ==
    [provider |-> p, queue |-> q, pc |-> "idle", msg |-> <<>>, attempts |-> 0,
     resp |-> <<>>, err |-> <<>>]

\* The workers prepareProvider starts for provider p on queue q.
StartedWorkers(p, q, n) == [i \in 1..n |-> NewWorker(p, q)]

\* createProviderFromProviderKey(providerKey, config): TRUE when the adapter
\* is created, FALSE when the constructor returns an error.
createProviderFromProviderKey(p) == p \notin cfg.adapterFails

\* prepareProvider(providerKey, config): a fresh queue stored in requestQueues,
\* a fresh wait group stored in waitGroups, then the adapter is created and
\* Concurrency workers are started on the queue; when the adapter cannot be
\* created the function returns its error with queue and wait group stored.
\* c is the provider's configuration as the account returns it.
prepareProvider(p, c) ==
    /\ queues' = Append(queues, NewQueue(c.bufSize))
    /\ requestQueues' = [requestQueues EXCEPT ![p] = Len(queues) + 1]
    /\ waitGroups' = [waitGroups EXCEPT ![p] = Len(wgs) + 1]
    /\ IF createProviderFromProviderKey(p)
       THEN /\ wgs' = Append(wgs, c.conc)
            /\ workers' = workers \o StartedWorkers(p, Len(queues) + 1, c.conc)
       ELSE /\ wgs' = Append(wgs, 0)
            /\ UNCHANGED workers

\* ------------------------------------------------------------ dispatcher
MaxOf(S) == IF S = {} THEN 0 ELSE CHOOSE x \in S : \A y \in S : y <= x

\* Observation: the rank of the next admission / the next dequeue.
NextAdmitNo == 1 + MaxOf({hist[x].admitNo : x \in Reqs})
NextDeqNo == 1 + MaxOf({hist[x].deqNo : x \in Reqs})

SetDisp(r, d) == disp' = [disp EXCEPT ![r] = d]

SetHist(r, h) == hist' = [hist EXCEPT ![r] = h]

\* tryRequest / tryStreamRequest return (resp, err): the try is over.
EndTry(d, resp, err) == [d EXCEPT !.pc = "decide", !.res = [resp |-> resp, err |-> err]]

\* The caller's call has returned (resp, err).
Finish(d, resp, err) == [d EXCEPT !.pc = "done", !.out = [resp |-> resp, err |-> err]]

\* validateRequest(req): nil (<<>>) for a valid request, else an error.
validateRequest(valid) ==
    IF valid THEN <<>> ELSE <<newBifrostErrorFromMsg(MsgInvalidRequest)>>

\* A public request method up to the first try: the check that the matching
\* input field is present, then handleRequest's validateRequest.
RequestMethod(r) ==
    LET d == disp[r]
        v == validateRequest(cfg.validation # "invalid")
    IN
    /\ d.pc = "entry"
    /\ IF cfg.validation = "inputMissing"
       THEN SetDisp(r, Finish(d, <<>>, <<MkErr(FALSE, 0, "", MsgInputMissing, FALSE, "nil")>>))
       ELSE IF v # <<>>
       THEN SetDisp(r, Finish(d, <<>>, <<Stamp(v[1], PrimaryProvider)>>))
       ELSE SetDisp(r, [d EXCEPT !.pc = "getQueue"])
    /\ UNCHANGED <<cleanup, cfg, ctxDone, chans, requestQueues, queues, waitGroups, wgs,
                   mutex, workers, dropExcess, upd, hist>>

\* getProviderQueue, the read-locked lookup: RLock, Load, RUnlock.
GetQueue(r) ==
    LET d == disp[r] IN
    /\ d.pc = "getQueue"
    /\ ~mutex[d.provider]
    /\ IF requestQueues[d.provider] # 0
       THEN SetDisp(r, [d EXCEPT !.pc = "preHooks", !.queue = requestQueues[d.provider]])
       ELSE SetDisp(r, [d EXCEPT !.pc = "lockQueue"])
    /\ UNCHANGED <<cleanup, cfg, ctxDone, chans, requestQueues, queues, waitGroups, wgs,
                   mutex, workers, dropExcess, upd, hist>>

\* getProviderQueue's creation path as it would be if tryRequest ran the
\* pre-hooks before asking for the queue: no configuration lookup and no
\* prepareProvider ahead of the pre-hooks.
LockQueueAfterPreHooks(r) ==
    LET d == disp[r] IN
    /\ d.pc = "lockQueue"
    /\ ~mutex[d.provider]
    /\ SetDisp(r, [d EXCEPT !.pc = "preHooks", !.queue = requestQueues[d.provider]])
    /\ UNCHANGED <<cleanup, cfg, ctxDone, chans, requestQueues, queues, waitGroups, wgs,
                   mutex, workers, dropExcess, upd, hist>>

\* getProviderQueue's creation path without the second lookup under the
\* write lock: the provider is prepared whatever has been stored meanwhile.
LockQueueWithoutRecheck(r) ==
    LET d == disp[r] IN
    /\ d.pc = "lockQueue"
    /\ ~mutex[d.provider]
    /\ prepareProvider(d.provider, cfg)
    /\ SetDisp(r, [d EXCEPT !.pc = "preHooks", !.queue = Len(queues) + 1])
    /\ SetHist(r, [hist[r] EXCEPT !.created = TRUE])
    /\ UNCHANGED <<cleanup, cfg, ctxDone, chans, mutex, dropExcess, upd>>

\* getProviderQueue, the creation path: Lock, the second lookup,
\* GetConfigForProvider, prepareProvider, Unlock.
LockQueue(r) ==
    LET d == disp[r] IN
    /\ d.pc = "lockQueue"
    /\ ~mutex[d.provider]
    /\ IF requestQueues[d.provider] # 0
       THEN /\ SetDisp(r, [d EXCEPT !.pc = "preHooks", !.queue = requestQueues[d.provider]])
            /\ UNCHANGED <<requestQueues, queues, waitGroups, wgs, workers, hist>>
       ELSE IF d.provider \in cfg.noConfig
       THEN /\ SetDisp(r, EndTry(d, <<>>, <<newBifrostError(MsgNoConfig)>>))
            /\ SetHist(r, [hist[r] EXCEPT !.ended = "noqueue"])
            /\ UNCHANGED <<requestQueues, queues, waitGroups, wgs, workers>>
       ELSE /\ prepareProvider(d.provider, cfg)
            /\ IF createProviderFromProviderKey(d.provider)
               THEN /\ SetDisp(r, [d EXCEPT !.pc = "preHooks", !.queue = Len(queues) + 1])
                    /\ SetHist(r, [hist[r] EXCEPT !.created = TRUE])
               ELSE /\ SetDisp(r, EndTry(d, <<>>, <<newBifrostError(MsgCreateFailed)>>))
                    /\ SetHist(r, [hist[r] EXCEPT !.created = TRUE, !.ended = "noadapter"])
    /\ UNCHANGED <<cleanup, cfg, ctxDone, chans, mutex, dropExcess, upd>>

\* What the plugins registered in this scenario may do.
PreChoices == [1..cfg.nPlugins -> PreBehaviours]
PostChoices == [1..cfg.nPlugins -> PostBehaviours]

\* The RequestType values.
RequestTypes ==
    {"text_completion", "chat_completion", "chat_completion_stream", "embedding",
     "speech", "speech_stream", "transcription", "transcription_stream"}

\* The guard of addMCPToolsToBifrostRequest in tryRequest (non-streaming
\* kinds) and in tryStreamRequest (streaming kinds); mcp: mcpManager != nil.
addsMCPTools(requestType, mcp) ==
    IF requestType \in StreamKinds
    THEN requestType # "speech_stream" /\ requestType # "transcription_stream" /\ mcp
    ELSE requestType # "embedding" /\ requestType # "speech" /\ mcp

\* tryRequest / tryStreamRequest from the tool augmentation and RunPreHooks to
\* the creation of the channel message.
PreHooks(r) ==
    LET d == disp[r] IN
    /\ d.pc = "preHooks"
    /\ \E pre \in PreChoices :
         LET o == RunPreHooks(pre)
             h == [hist[r] EXCEPT !.preRan = o.ran,
                                  !.tools = IF addsMCPTools(cfg.kind, cfg.mcp)
                                            THEN "merged" ELSE "untouched"]
         IN IF o.sc # <<>> /\ (o.sc[1].Response # <<>> \/ o.sc[1].Error # <<>>)
            THEN /\ SetDisp(r, [d EXCEPT !.pc = "scPost", !.sc = o.sc, !.preCount = o.count])
                 /\ SetHist(r, [h EXCEPT !.sc = pre[o.count]])
                 /\ UNCHANGED chans
            ELSE IF o.reqNil
            THEN /\ SetDisp(r, EndTry([d EXCEPT !.preCount = o.count], <<>>,
                                      <<newBifrostErrorFromMsg(MsgNilRequest)>>))
                 /\ SetHist(r, [h EXCEPT !.ended = "nilreq",
                                         !.sc = IF o.sc # <<>> THEN pre[o.count] ELSE ""])
                 /\ UNCHANGED chans
            ELSE /\ SetDisp(r, [d EXCEPT !.pc = "admit", !.preCount = o.count])
                 /\ SetHist(r, [h EXCEPT !.sc = IF o.sc # <<>> THEN pre[o.count] ELSE ""])
                 /\ chans' = [chans EXCEPT ![r] = EmptyChans]
    /\ UNCHANGED <<cleanup, cfg, ctxDone, requestQueues, queues, waitGroups, wgs,
                   mutex, workers, dropExcess, upd>>

\* The short-circuit return with RunPostHooks run over len(bifrost.plugins)
\* instead of preCount: what it would be if it ignored the executed prefix.
ScPostAllPlugins(r) ==
    LET d == disp[r]
        sc == d.sc[1]
    IN
    /\ d.pc = "scPost"
    /\ \E post \in PostChoices :
         LET o == IF sc.Response # <<>>
                  THEN RunPostHooks(post, sc.Response, <<>>, cfg.nPlugins)
                  ELSE RunPostHooks(post, <<>>, sc.Error, cfg.nPlugins)
         IN /\ SetDisp(r, IF o.err # <<>> THEN EndTry(d, <<>>, o.err)
                                          ELSE EndTry(d, o.resp, <<>>))
            /\ SetHist(r, [hist[r] EXCEPT !.postRan = @ \o o.ran, !.ended = "shortcircuit",
                                           !.postLeft = o.left])
    /\ UNCHANGED <<cleanup, cfg, ctxDone, chans, requestQueues, queues, waitGroups, wgs,
                   mutex, workers, dropExcess, upd>>

\* tryRequest's short-circuit return: RunPostHooks over preCount plugins.
ScPost(r) ==
    LET d == disp[r]
        sc == d.sc[1]
    IN
    /\ d.pc = "scPost"
    /\ \E post \in PostChoices :
         LET o == IF sc.Response # <<>>
                  THEN RunPostHooks(post, sc.Response, <<>>, d.preCount)
                  ELSE RunPostHooks(post, <<>>, sc.Error, d.preCount)
         IN /\ SetDisp(r, IF o.err # <<>> THEN EndTry(d, <<>>, o.err)
                                          ELSE EndTry(d, o.resp, <<>>))
            /\ SetHist(r, [hist[r] EXCEPT !.postRan = @ \o o.ran, !.ended = "shortcircuit",
                                           !.postLeft = o.left])
    /\ UNCHANGED <<cleanup, cfg, ctxDone, chans, requestQueues, queues, waitGroups, wgs,
                   mutex, workers, dropExcess, upd>>

QueueHasSpace(q) == Len(queues[q].buf) < queues[q].cap

\* The cases of the admission select that are ready: the send (a send on a
\* closed channel is ready and panics) and ctx.Done().
SendReady(r) ==
    (IF queues[disp[r].queue].closed THEN {"panic"}
     ELSE IF QueueHasSpace(disp[r].queue) THEN {"send"} ELSE {})
    \cup (IF ctxDone[r] THEN {"ctx"} ELSE {})

\* releaseChannelMessage: the channels go back to their pools; only the
\* stream container is drained.
releaseChannelMessage(c) == [c EXCEPT !.ResponseStream = <<>>]

\* One ready case of `queue <- *msg` / `<-ctx.Done()` taken by caller r.
TakeSendCase(r, c) ==
    LET d == disp[r] IN
    CASE c = "send" ->
           /\ queues' = [queues EXCEPT ![d.queue].buf = Append(@, MsgOf(r))]
           /\ SetDisp(r, [d EXCEPT !.pc = "await"])
           /\ SetHist(r, [hist[r] EXCEPT !.admitted = TRUE,
                             !.admitNo = NextAdmitNo])
           /\ UNCHANGED chans
      [] c = "ctx" ->
           /\ SetDisp(r, EndTry(d, <<>>, <<newBifrostErrorFromMsg(MsgCancelledWaiting)>>))
           /\ SetHist(r, [hist[r] EXCEPT !.ended = "admission"])
           /\ chans' = [chans EXCEPT ![r] = releaseChannelMessage(@)]
           /\ UNCHANGED queues
      [] OTHER ->
           /\ SetDisp(r, [d EXCEPT !.pc = "panic"])
           /\ UNCHANGED <<queues, hist, chans>>

\* The admission select with a default case that never reads
\* dropExcessRequests: a full queue always leads to the blocking select.
AdmitIgnoringDropFlag(r) ==
    LET d == disp[r] IN
    /\ d.pc = "admit"
    /\ IF SendReady(r) # {}
       THEN \E c \in SendReady(r) : TakeSendCase(r, c)
       ELSE /\ SetDisp(r, [d EXCEPT !.pc = "blocked"])
            /\ UNCHANGED <<queues, hist, chans>>
    /\ UNCHANGED <<cleanup, cfg, ctxDone, requestQueues, waitGroups, wgs,
                   mutex, workers, dropExcess, upd>>

\* tryRequest's admission select with its default case.
Admit(r) ==
    LET d == disp[r] IN
    /\ d.pc = "admit"
    /\ IF SendReady(r) # {}
       THEN \E c \in SendReady(r) : TakeSendCase(r, c)
       ELSE IF dropExcess
       THEN /\ SetDisp(r, EndTry(d, <<>>, <<newBifrostErrorFromMsg(MsgQueueFull)>>))
            /\ SetHist(r, [hist[r] EXCEPT !.ended = "admission"])
            /\ chans' = [chans EXCEPT ![r] = releaseChannelMessage(@)]
            /\ UNCHANGED queues
       ELSE /\ SetDisp(r, [d EXCEPT !.pc = "blocked"])
            /\ UNCHANGED <<queues, hist, chans>>
    /\ UNCHANGED <<cleanup, cfg, ctxDone, requestQueues, waitGroups, wgs,
                   mutex, workers, dropExcess, upd>>

\* A blocking select that gives up with the queue-full error once
\* dropExcessRequests has been set: the flag read again while waiting.
BlockedRereadingFlag(r) ==
    LET d == disp[r] IN
    /\ d.pc = "blocked"
    /\ IF dropExcess
       THEN /\ SetDisp(r, EndTry(d, <<>>, <<newBifrostErrorFromMsg(MsgQueueFull)>>))
            /\ SetHist(r, [hist[r] EXCEPT !.ended = "admission"])
            /\ chans' = [chans EXCEPT ![r] = releaseChannelMessage(@)]
            /\ UNCHANGED queues
       ELSE \E c \in SendReady(r) : TakeSendCase(r, c)
    /\ UNCHANGED <<cleanup, cfg, ctxDone, requestQueues, waitGroups, wgs,
                   mutex, workers, dropExcess, upd>>

\* tryRequest's blocking select: send or ctx.Done().
Blocked(r) ==
    /\ disp[r].pc = "blocked"
    /\ \E c \in SendReady(r) : TakeSendCase(r, c)
    /\ UNCHANGED <<cleanup, cfg, ctxDone, requestQueues, waitGroups, wgs,
                   mutex, workers, dropExcess, upd>>


\* UpdateDropExcessRequests(value): the atomic Store, in the scenarios where
\* the setting is hot-reloaded.
UpdateDropExcessRequests(value) ==
    /\ cfg.flagUpdate
    /\ dropExcess' = value
    /\ UNCHANGED <<cleanup, cfg, disp, ctxDone, chans, requestQueues, queues, waitGroups,
                   wgs, mutex, workers, upd, hist>>

\* The outcome sinks of caller r's message that hold a value.
AwaitReady(r) ==
    (IF isStreamRequestType(cfg.kind)
     THEN (IF chans[r].ResponseStream # <<>> THEN {"stream"} ELSE {})
     ELSE (IF chans[r].Response # <<>> THEN {"resp"} ELSE {}))
    \cup (IF chans[r].Err # <<>> THEN {"err"} ELSE {})

\* A final select that runs the post-hooks but returns the outcome the worker
\* published, whatever the post-hooks made of it.
AwaitKeepingAdapterOutcome(r) ==
    LET d == disp[r] IN
    /\ d.pc = "await"
    /\ \E c \in AwaitReady(r) :
         CASE c = "resp" ->
                \E post \in PostChoices :
                  LET o == RunPostHooks(post, chans[r].Response, <<>>, cfg.nPlugins)
                  IN /\ SetDisp(r, EndTry(d, chans[r].Response, <<>>))
                     /\ SetHist(r, [hist[r] EXCEPT !.postRan = @ \o o.ran, !.ended = "adapter",
                                                      !.postLeft = o.left, !.adapterOut = "resp"])
                     /\ chans' = [chans EXCEPT ![r] =
                                    releaseChannelMessage([@ EXCEPT !.Response = <<>>])]
           [] c = "err" /\ ~isStreamRequestType(cfg.kind) ->
                \E post \in PostChoices :
                  LET o == RunPostHooks(post, <<>>, chans[r].Err, cfg.nPlugins)
                  IN /\ SetDisp(r, EndTry(d, <<>>, chans[r].Err))
                     /\ SetHist(r, [hist[r] EXCEPT !.postRan = @ \o o.ran, !.ended = "adapter",
                                                      !.postLeft = o.left, !.adapterOut = "err"])
                     /\ chans' = [chans EXCEPT ![r] =
                                    releaseChannelMessage([@ EXCEPT !.Err = <<>>])]
           [] c = "err" /\ isStreamRequestType(cfg.kind) ->
                /\ SetDisp(r, EndTry(d, <<>>, chans[r].Err))
                /\ SetHist(r, [hist[r] EXCEPT !.ended = "adapter", !.adapterOut = "err"])
                /\ chans' = [chans EXCEPT ![r] =
                               releaseChannelMessage([@ EXCEPT !.Err = <<>>])]
           [] OTHER ->
                /\ SetDisp(r, EndTry(d, chans[r].ResponseStream, <<>>))
                /\ SetHist(r, [hist[r] EXCEPT !.ended = "adapter", !.adapterOut = "resp"])
                /\ chans' = [chans EXCEPT ![r] =
                               releaseChannelMessage([@ EXCEPT !.ResponseStream = <<>>])]
    /\ UNCHANGED <<cleanup, cfg, ctxDone, requestQueues, queues, waitGroups, wgs,
                   mutex, workers, dropExcess, upd>>

\* The final select of tryRequest (result or error, then RunPostHooks over
\* len(bifrost.plugins)) and of tryStreamRequest (stream or error, no post-hooks).
Await(r) ==
    LET d == disp[r] IN
    /\ d.pc = "await"
    /\ \E c \in AwaitReady(r) :
         CASE c = "resp" ->
                \E post \in PostChoices :
                  LET o == RunPostHooks(post, chans[r].Response, <<>>, cfg.nPlugins)
                  IN /\ SetDisp(r, IF o.err # <<>> THEN EndTry(d, <<>>, o.err)
                                                   ELSE EndTry(d, o.resp, <<>>))
                     /\ SetHist(r, [hist[r] EXCEPT !.postRan = @ \o o.ran, !.ended = "adapter",
                                                      !.postLeft = o.left, !.adapterOut = "resp"])
                     /\ chans' = [chans EXCEPT ![r] =
                                    releaseChannelMessage([@ EXCEPT !.Response = <<>>])]
           [] c = "err" /\ ~isStreamRequestType(cfg.kind) ->
                \E post \in PostChoices :
                  LET o == RunPostHooks(post, <<>>, chans[r].Err, cfg.nPlugins)
                  IN /\ SetDisp(r, IF o.err # <<>> THEN EndTry(d, <<>>, o.err)
                                                   ELSE EndTry(d, o.resp, <<>>))
                     /\ SetHist(r, [hist[r] EXCEPT !.postRan = @ \o o.ran, !.ended = "adapter",
                                                      !.postLeft = o.left, !.adapterOut = "err"])
                     /\ chans' = [chans EXCEPT ![r] =
                                    releaseChannelMessage([@ EXCEPT !.Err = <<>>])]
           [] c = "err" /\ isStreamRequestType(cfg.kind) ->
                /\ SetDisp(r, EndTry(d, <<>>, chans[r].Err))
                /\ SetHist(r, [hist[r] EXCEPT !.ended = "adapter", !.adapterOut = "err"])
                /\ chans' = [chans EXCEPT ![r] =
                               releaseChannelMessage([@ EXCEPT !.Err = <<>>])]
           [] OTHER ->
                /\ SetDisp(r, EndTry(d, chans[r].ResponseStream, <<>>))
                /\ SetHist(r, [hist[r] EXCEPT !.ended = "adapter", !.adapterOut = "resp"])
                /\ chans' = [chans EXCEPT ![r] =
                               releaseChannelMessage([@ EXCEPT !.ResponseStream = <<>>])]
    /\ UNCHANGED <<cleanup, cfg, ctxDone, requestQueues, queues, waitGroups, wgs,
                   mutex, workers, dropExcess, upd>>

\* The observation record of a try that starts.
TryHist(h, target) ==
    [h EXCEPT !.preRan = <<>>, !.postRan = <<>>, !.ended = "", !.sc = "",
              !.admitted = FALSE, !.handled = FALSE, !.published = 0,
              !.cancelledAtDeq = FALSE, !.postLeft = NoTry, !.created = FALSE, !.tools = "", !.adapterOut = "",
              !.tried = Append(@, target)]

\* The fallback loop returning the error of the last try, not the primary
\* error, when the list is exhausted.
ContinueCascadeLastError(r, d, i) ==
    LET j == NextFallback(i, cfg.nFallbacks, cfg.noConfig) IN
    IF j = 0
    THEN /\ SetDisp(r, Finish(d, <<>>, <<Stamp(d.res.err[1], d.provider)>>))
         /\ UNCHANGED hist
    ELSE LET t == prepareFallbackRequest(FallbackEntry(j), cfg.noConfig)[1] IN
         /\ SetDisp(r, [d EXCEPT !.pc = "getQueue", !.try = j, !.provider = t.provider,
                                 !.model = t.model, !.queue = 0, !.preCount = 0,
                                 !.sc = <<>>, !.res = NoTry])
         /\ SetHist(r, TryHist(hist[r], t))

\* handleRequest's fallback loop from entry i on: the next try, or the
\* primary error when the list is exhausted.
ContinueCascade(r, d, i) ==
    LET j == NextFallback(i, cfg.nFallbacks, cfg.noConfig) IN
    IF j = 0
    THEN /\ SetDisp(r, Finish(d, <<>>, <<Stamp(d.primaryErr[1], PrimaryProvider)>>))
         /\ UNCHANGED hist
    ELSE LET t == prepareFallbackRequest(FallbackEntry(j), cfg.noConfig)[1] IN
         /\ SetDisp(r, [d EXCEPT !.pc = "getQueue", !.try = j, !.provider = t.provider,
                                 !.model = t.model, !.queue = 0, !.preCount = 0,
                                 !.sc = <<>>, !.res = NoTry])
         /\ SetHist(r, TryHist(hist[r], t))

\* handleRequest / handleStreamRequest after a try has returned.
Decide(r) ==
    LET d == disp[r] IN
    /\ d.pc = "decide"
    /\ IF d.try = 0
       THEN LET s == shouldTryFallbacks(cfg.nFallbacks, d.res.err) IN
            IF ~s.go
            THEN /\ SetDisp(r, Finish(d, d.res.resp, s.err))
                 /\ UNCHANGED hist
            ELSE ContinueCascade(r, [d EXCEPT !.primaryErr = d.res.err], 1)
       ELSE IF d.res.err = <<>>
       THEN /\ SetDisp(r, Finish(d, d.res.resp, <<>>))
            /\ UNCHANGED hist
       ELSE LET c == shouldContinueWithFallbacks(FallbackEntry(d.try), d.res.err[1]) IN
            IF ~c.go
            THEN /\ SetDisp(r, Finish(d, <<>>, <<c.err>>))
                 /\ UNCHANGED hist
            ELSE ContinueCascade(r, d, d.try + 1)
    /\ UNCHANGED <<cleanup, cfg, ctxDone, chans, requestQueues, queues, waitGroups, wgs,
                   mutex, workers, dropExcess, upd>>

\* The caller's cancellation token fires.
Cancel(r) ==
    /\ r \in cfg.cancellable
    /\ Active(r)
    /\ ~ctxDone[r]
    /\ ctxDone' = [ctxDone EXCEPT ![r] = TRUE]
    /\ UNCHANGED <<cleanup, cfg, disp, chans, requestQueues, queues, waitGroups, wgs,
                   mutex, workers, dropExcess, upd, hist>>


\* ---------------------------------------------------------------- worker
\* Errors an adapter call may return (schemas.BifrostError values).
ErrUpstream(status) == MkErr(FALSE, status, "", "upstream error", FALSE, "nil")
ErrClient == MkErr(FALSE, 400, "", "bad request", FALSE, "nil")
ErrTransport == MkErr(TRUE, 503, "", "transport failure", TRUE, "nil")
ErrRefused == MkErr(FALSE, 503, "", "no fallbacks", FALSE, "false")
ErrCancelled == MkErr(FALSE, 0, RequestCancelled, "request cancelled", FALSE, "nil")

RetryableErrs == {ErrUpstream(s) : s \in retryableStatusCodes}

AllAdapterErrs == RetryableErrs \cup {ErrClient, ErrTransport, ErrRefused}

\* What one adapter call for message m may return: nil error (success), one of
\* the scenario's errors, or a cancellation error once the token has fired.
AdapterOutcomes(m) ==
    {<<>>} \cup {<<e>> : e \in cfg.adapterErrs}
           \cup (IF ctxDone[m.r] THEN {<<ErrCancelled>>} ELSE {})

SetWorker(w, x) == workers' = [workers EXCEPT ![w] = x]

\* schemas.Key; Weight is the float64 weight counted in thousandths.
MkKey(id, models, value, weight) ==
    [ID |-> id, Models |-> models, Value |-> value, Weight |-> weight]

\* strings.TrimSpace over the key values used here.
TrimSpace(v) == IF v = " " THEN "" ELSE v

\* int(key.Weight * 100): the conversion truncates.
ScaledWeight(key) == key.Weight \div 10

\* The filter of selectKeyFromProviderForModel; isVertex: providerKey == schemas.Vertex.
SupportsModel(key, isVertex, model) ==
    \/ (model \in key.Models /\ (TrimSpace(key.Value) # "" \/ isVertex))
    \/ key.Models = {}

supportedKeys(keys, isVertex, model) ==
    SelectSeq(keys, LAMBDA key : SupportsModel(key, isVertex, model))

RECURSIVE totalWeight(_)
totalWeight(keys) ==
    IF keys = <<>> THEN 0 ELSE ScaledWeight(Head(keys)) + totalWeight(Tail(keys))

\* The selection loop: the first key whose running sum exceeds randomValue,
\* the first key if there is none.
RECURSIVE WalkKeys(_, _, _, _)
WalkKeys(keys, i, currentWeight, randomValue) ==
    IF i > Len(keys) THEN keys[1]
    ELSE IF randomValue < currentWeight + ScaledWeight(keys[i]) THEN keys[i]
    ELSE WalkKeys(keys, i + 1, currentWeight + ScaledWeight(keys[i]), randomValue)

\* selectKeyFromProviderForModel on the key list the account returned, with
\* randomValue the result of Intn(totalWeight): the key, or the error message.
selectKeyFromProviderForModel(keys, isVertex, model, randomValue) ==
    LET sup == supportedKeys(keys, isVertex, model) IN
    IF keys = <<>> THEN [key |-> <<>>, err |-> MsgNoKeysForProvider]
    ELSE IF sup = <<>> THEN [key |-> <<>>, err |-> MsgNoKeys]
    ELSE IF Len(sup) = 1 THEN [key |-> <<sup[1]>>, err |-> ""]
    ELSE [key |-> <<WalkKeys(sup, 1, 0, randomValue)>>, err |-> ""]

\* The values Intn(totalWeight) may return for this key list; Intn panics on
\* an argument that is not positive ({}: no value is returned).
RandomValues(keys, isVertex, model) ==
    LET sup == supportedKeys(keys, isVertex, model) IN
    IF Len(sup) <= 1 THEN {0} ELSE 0..(totalWeight(sup) - 1)

\* A worker that sends the key-selection error to the caller and, without
\* the `continue`, goes on to call the adapter for the same message.
DequeueWithoutContinue(w) ==
    LET x == workers[w]
        q == queues[x.queue]
    IN
    /\ x.pc = "idle"
    /\ q.buf # <<>>
    /\ LET m == Head(q.buf)
           h == [hist[m.r] EXCEPT !.deqNo = NextDeqNo, !.deqQueue = x.queue,
                                  !.cancelledAtDeq = ctxDone[m.r], !.calls = 0]
       IN
       /\ queues' = [queues EXCEPT ![x.queue].buf = Tail(@)]
       /\ SetWorker(w, [x EXCEPT !.pc = "attempt", !.msg = <<m>>, !.attempts = 0,
                                 !.resp = <<>>, !.err = <<>>])
       /\ \E keys \in cfg.keyLists :
            LET sel == selectKeyFromProviderForModel(keys, cfg.vertex, m.model, 0) IN
            IF sel.err = ""
            THEN /\ SetHist(m.r, [h EXCEPT !.keys = keys, !.key = sel.key])
                 /\ UNCHANGED chans
            ELSE /\ chans' = [chans EXCEPT ![m.r].Err = <<MkErr(FALSE, 0, "", sel.err, TRUE, "nil")>>]
                 /\ SetHist(m.r, [h EXCEPT !.keys = keys, !.keyErr = sel.err,
                                           !.handled = TRUE, !.published = @ + 1])
    /\ UNCHANGED <<cleanup, cfg, disp, ctxDone, requestQueues, waitGroups, wgs,
                   mutex, dropExcess, upd>>

\* requestWorker: `for req := range queue` receives a message, then selects the
\* key (selectKeyFromProviderForModel) and fetches the provider config.
Dequeue(w) ==
    LET x == workers[w]
        q == queues[x.queue]
    IN
    /\ x.pc = "idle"
    /\ q.buf # <<>>
    /\ LET m == Head(q.buf)
           h == [hist[m.r] EXCEPT !.deqNo = NextDeqNo, !.deqQueue = x.queue,
                                  !.cancelledAtDeq = ctxDone[m.r], !.calls = 0]
       IN
       /\ queues' = [queues EXCEPT ![x.queue].buf = Tail(@)]
       /\ \E keys \in cfg.keyLists :
            LET rvs == RandomValues(keys, cfg.vertex, m.model)
                hk == [h EXCEPT !.keys = keys]
            IN
            IF rvs = {}
            THEN /\ SetWorker(w, [x EXCEPT !.pc = "panic", !.msg = <<m>>])
                 /\ SetHist(m.r, [hk EXCEPT !.keyErr = "panic"])
                 /\ UNCHANGED chans
            ELSE \E randomValue \in rvs :
                 LET sel == selectKeyFromProviderForModel(keys, cfg.vertex, m.model, randomValue) IN
                 IF sel.err = ""
                 THEN /\ SetWorker(w, [x EXCEPT !.pc = "attempt", !.msg = <<m>>, !.attempts = 0,
                                                !.resp = <<>>, !.err = <<>>])
                      /\ SetHist(m.r, [hk EXCEPT !.key = sel.key, !.keyErr = ""])
                      /\ UNCHANGED chans
                 ELSE IF chans[m.r].Err = <<>>
                 THEN /\ chans' = [chans EXCEPT ![m.r].Err = <<MkErr(FALSE, 0, "", sel.err, TRUE, "nil")>>]
                      /\ SetHist(m.r, [hk EXCEPT !.key = <<>>, !.keyErr = sel.err,
                                                 !.handled = TRUE, !.published = @ + 1])
                      /\ UNCHANGED workers
                 ELSE /\ SetWorker(w, [x EXCEPT !.pc = "blockedErr", !.msg = <<m>>])
                      /\ SetHist(m.r, [hk EXCEPT !.key = <<>>, !.keyErr = sel.err])
                      /\ UNCHANGED chans
    /\ UNCHANGED <<cleanup, cfg, disp, ctxDone, requestQueues, waitGroups, wgs,
                   mutex, dropExcess, upd>>

\* A retry loop that is left only by a successful call.
BreaksLoopOnSuccessOnly(kind, err) == err = <<>>

\* The retry loop's decision after a call returned err (<<>>: nil): TRUE when
\* the loop is left by one of its break statements.
BreaksLoop(kind, err) ==
    \/ IF isStreamRequestType(kind)
       THEN err # <<>> /\ ~err[1].IsBifrostError
       ELSE err # <<>>
    \/ err = <<>>
    \/ err[1].IsBifrostError
    \/ (err[1].StatusCode # 0 /\ err[1].StatusCode \notin retryableStatusCodes)
    \/ err[1].Type = RequestCancelled

\* A retry loop without the `attempts <= MaxRetries` condition and without the
\* breaks on an error: it goes round again after every failed call.
AttemptUnbounded(w) ==
    LET x == workers[w] IN
    /\ x.pc = "attempt"
    /\ LET m == x.msg[1] IN
       \E err \in AdapterOutcomes(m) :
         LET resp == IF err # <<>> THEN <<>>
                     ELSE <<MkResp(IF isStreamRequestType(m.kind) THEN "stream" ELSE "adapter",
                                   x.provider, m.model)>>
         IN /\ SetWorker(w, [x EXCEPT !.pc = IF err # <<>> THEN "attempt" ELSE "publish",
                                      !.attempts = IF err # <<>> THEN @ + 1 ELSE @,
                                      !.resp = resp, !.err = err])
            /\ SetHist(m.r, [hist[m.r] EXCEPT !.calls = @ + 1,
                               !.callLog = Append(@, [provider |-> x.provider, model |-> m.model])])
    /\ UNCHANGED <<cleanup, cfg, disp, ctxDone, chans, requestQueues, queues, waitGroups, wgs,
                   mutex, dropExcess, upd>>

\* One iteration of the retry loop: the back-off sleep when attempts > 0, one
\* adapter invocation, and the decision to break or to go round again.
Attempt(w) ==
    LET x == workers[w] IN
    /\ x.pc = "attempt"
    /\ LET m == x.msg[1] IN
       \E err \in AdapterOutcomes(m) :
         LET resp == IF err # <<>> THEN <<>>
                     ELSE <<MkResp(IF isStreamRequestType(m.kind) THEN "stream" ELSE "adapter",
                                   x.provider, m.model)>>
             again == ~BreaksLoop(m.kind, err) /\ x.attempts + 1 <= cfg.maxRetries
             att == IF BreaksLoop(m.kind, err) THEN x.attempts ELSE x.attempts + 1
         IN /\ SetWorker(w, [x EXCEPT !.pc = IF again THEN "attempt" ELSE "publish",
                                      !.attempts = att, !.resp = resp, !.err = err])
            /\ SetHist(m.r, [hist[m.r] EXCEPT !.calls = @ + 1,
                               !.callLog = Append(@, [provider |-> x.provider, model |-> m.model])])
    /\ UNCHANGED <<cleanup, cfg, disp, ctxDone, chans, requestQueues, queues, waitGroups, wgs,
                   mutex, dropExcess, upd>>

\* The sink the worker publishes its outcome into.
SinkOf(x) ==
    IF x.err # <<>> THEN "Err"
    ELSE IF isStreamRequestType(x.msg[1].kind) THEN "ResponseStream" ELSE "Response"

\* The ready cases of the publish select; the 5-second timer fires only when
\* no other case becomes ready.
PublishReady(x) ==
    (IF chans[x.msg[1].r][SinkOf(x)] = <<>> THEN {"send"} ELSE {})
    \cup (IF ctxDone[x.msg[1].r] THEN {"ctx"} ELSE {})

\* requestWorker publishes the outcome: send, ctx.Done() or the timeout.
Publish(w) ==
    LET x == workers[w] IN
    /\ x.pc = "publish"
    /\ LET r == x.msg[1].r
           val == IF x.err # <<>> THEN x.err ELSE x.resp
           idle == [x EXCEPT !.pc = "idle", !.msg = <<>>, !.resp = <<>>, !.err = <<>>,
                             !.attempts = 0]
       IN /\ SetWorker(w, idle)
          /\ \E c \in (IF PublishReady(x) = {} THEN {"timeout"} ELSE PublishReady(x)) :
               IF c = "send"
               THEN /\ chans' = [chans EXCEPT ![r][SinkOf(x)] = val]
                    /\ SetHist(r, [hist[r] EXCEPT !.handled = TRUE, !.published = @ + 1])
               ELSE /\ UNCHANGED chans
                    /\ SetHist(r, [hist[r] EXCEPT !.handled = TRUE])
    /\ UNCHANGED <<cleanup, cfg, disp, ctxDone, requestQueues, queues, waitGroups, wgs,
                   mutex, dropExcess, upd>>

\* A worker that stops as soon as its queue is closed, whatever the queue
\* still buffers and whatever message the worker holds.
WorkerExitWhenClosed(w) ==
    LET x == workers[w] IN
    /\ x.pc \in {"idle", "attempt", "publish"}
    /\ queues[x.queue].closed
    /\ SetWorker(w, [x EXCEPT !.pc = "exited"])
    /\ IF waitGroups[x.provider] # 0
       THEN wgs' = [wgs EXCEPT ![waitGroups[x.provider]] = @ - 1]
       ELSE UNCHANGED wgs
    /\ UNCHANGED <<cleanup, cfg, disp, ctxDone, chans, requestQueues, queues, waitGroups,
                   mutex, dropExcess, upd, hist>>

\* A worker that leaves `range queue` without the deferred Done.
WorkerExitWithoutDone(w) ==
    LET x == workers[w] IN
    /\ x.pc = "idle"
    /\ queues[x.queue].closed
    /\ queues[x.queue].buf = <<>>
    /\ SetWorker(w, [x EXCEPT !.pc = "exited"])
    /\ UNCHANGED <<cleanup, cfg, disp, ctxDone, chans, requestQueues, queues, waitGroups, wgs,
                   mutex, dropExcess, upd, hist>>

\* requestWorker leaves `range queue` (queue closed and empty); the deferred
\* function calls Done on the wait group stored for the provider.
WorkerExit(w) ==
    LET x == workers[w] IN
    /\ x.pc = "idle"
    /\ queues[x.queue].closed
    /\ queues[x.queue].buf = <<>>
    /\ SetWorker(w, [x EXCEPT !.pc = "exited"])
    /\ IF waitGroups[x.provider] # 0
       THEN wgs' = [wgs EXCEPT ![waitGroups[x.provider]] = @ - 1]
       ELSE UNCHANGED wgs
    /\ UNCHANGED <<cleanup, cfg, disp, ctxDone, chans, requestQueues, queues, waitGroups,
                   mutex, dropExcess, upd, hist>>


\* ------------------------------------------------- hot reconfiguration
IdleUpdate == [pc |-> "idle", provider |-> PrimaryProvider, oldQueue |-> 0,
               newQueue |-> 0, transfer |-> <<>>, transferred |-> 0, failed |-> FALSE]

IdleCleanup == [pc |-> "idle", visited |-> {}]

\* Observation: the callers whose message is buffered in queue q.
BufferedIn(q) == {queues[q].buf[i].r : i \in 1..Len(queues[q].buf)}

\* Observation: the callers whose message a worker of queue q holds.
InFlightAt(q) ==
    {workers[w].msg[1].r : w \in {v \in 1..Len(workers) :
                                     workers[v].queue = q /\ workers[v].msg # <<>>}}

\* UpdateProviderConcurrency up to step 1 with a queue of one slot whatever
\* BufferSize the account's new configuration gives.
UpdateStartUnitQueue(p) ==
    /\ cfg.update
    /\ upd.pc = "idle"
    /\ ~mutex[p]
    /\ \E nb \in 1..MaxBuf, nc \in 1..MaxConc :
         /\ cfg' = [cfg EXCEPT !.bufSize = nb, !.conc = nc]
         /\ IF requestQueues[p] = 0
            THEN /\ prepareProvider(p, [bufSize |-> nb, conc |-> nc])
                 /\ upd' = [upd EXCEPT !.pc = "done", !.provider = p,
                                       !.failed = ~createProviderFromProviderKey(p)]
                 /\ UNCHANGED <<mutex, hist>>
            ELSE /\ queues' = Append(queues, NewQueue(1))
                 /\ mutex' = [mutex EXCEPT ![p] = TRUE]
                 /\ upd' = [upd EXCEPT !.pc = "drain", !.provider = p,
                                       !.oldQueue = requestQueues[p],
                                       !.newQueue = Len(queues) + 1]
                 /\ hist' = [r \in Reqs |->
                               [hist[r] EXCEPT !.buffered = r \in BufferedIn(requestQueues[p]),
                                               !.inFlight = r \in InFlightAt(requestQueues[p])]]
                 /\ UNCHANGED <<requestQueues, waitGroups, wgs, workers>>
    /\ UNCHANGED <<cleanup, disp, ctxDone, chans, dropExcess>>

\* UpdateProviderConcurrency up to step 1: the account's new configuration is
\* read, the provider's write lock taken, the old queue looked up and the new
\* queue made; a provider without a queue is prepared and the call returns.
UpdateStart(p) ==
    /\ cfg.update
    /\ upd.pc = "idle"
    /\ ~mutex[p]
    /\ \E nb \in 1..MaxBuf, nc \in 1..MaxConc :
         /\ cfg' = [cfg EXCEPT !.bufSize = nb, !.conc = nc]
         /\ IF requestQueues[p] = 0
            THEN /\ prepareProvider(p, [bufSize |-> nb, conc |-> nc])
                 /\ upd' = [upd EXCEPT !.pc = "done", !.provider = p,
                                       !.failed = ~createProviderFromProviderKey(p)]
                 /\ UNCHANGED <<mutex, hist>>
            ELSE /\ queues' = Append(queues, NewQueue(nb))
                 /\ mutex' = [mutex EXCEPT ![p] = TRUE]
                 /\ upd' = [upd EXCEPT !.pc = "drain", !.provider = p,
                                       !.oldQueue = requestQueues[p],
                                       !.newQueue = Len(queues) + 1]
                 /\ hist' = [r \in Reqs |->
                               [hist[r] EXCEPT !.buffered = r \in BufferedIn(requestQueues[p]),
                                               !.inFlight = r \in InFlightAt(requestQueues[p])]]
                 /\ UNCHANGED <<requestQueues, waitGroups, wgs, workers>>
    /\ UNCHANGED <<cleanup, disp, ctxDone, chans, dropExcess>>

\* The zero ChannelMessage a receive from a closed, empty channel yields: no
\* caller, nil channels.
ZeroMsg == [r |-> 0, provider |-> "", model |-> "", kind |-> ""]

\* A transfer loop that copies the message it reads into the new queue and
\* leaves it in the old queue as well.
UpdateDrainCopying ==
    /\ upd.pc = "drain"
    /\ LET old == queues[upd.oldQueue] IN
       IF old.buf # <<>> \/ old.closed
       THEN LET m == IF old.buf # <<>> THEN Head(old.buf) ELSE ZeroMsg IN
            IF QueueHasSpace(upd.newQueue)
            THEN /\ queues' = [queues EXCEPT ![upd.newQueue].buf = Append(@, m)]
                 /\ upd' = [upd EXCEPT !.transferred = @ + 1]
            ELSE /\ UNCHANGED queues
                 /\ upd' = [upd EXCEPT !.pc = "transferWait", !.transfer = <<m>>]
       ELSE /\ upd' = [upd EXCEPT !.pc = "close"]
            /\ UNCHANGED queues
    /\ UNCHANGED <<cleanup, cfg, disp, ctxDone, chans, requestQueues, waitGroups, wgs,
                   mutex, workers, dropExcess, hist>>

\* Step 2, one iteration of the transfer loop: a message received from the old
\* queue (the zero message once the queue is closed and empty) goes into the
\* new queue, or, the new queue being full, to a transfer goroutine and the
\* loop is left; an open, empty old queue ends the loop.
UpdateDrain ==
    /\ upd.pc = "drain"
    /\ LET old == queues[upd.oldQueue] IN
       IF old.buf # <<>> \/ old.closed
       THEN LET m == IF old.buf # <<>> THEN Head(old.buf) ELSE ZeroMsg
                rest == IF old.buf # <<>> THEN Tail(old.buf) ELSE <<>>
            IN
            IF QueueHasSpace(upd.newQueue)
            THEN /\ queues' = [queues EXCEPT ![upd.oldQueue].buf = rest,
                                             ![upd.newQueue].buf = Append(@, m)]
                 /\ upd' = [upd EXCEPT !.transferred = @ + 1]
            ELSE /\ queues' = [queues EXCEPT ![upd.oldQueue].buf = rest]
                 /\ upd' = [upd EXCEPT !.pc = "transferWait", !.transfer = <<m>>]
       ELSE /\ upd' = [upd EXCEPT !.pc = "close"]
            /\ UNCHANGED queues
    /\ UNCHANGED <<cleanup, cfg, disp, ctxDone, chans, requestQueues, waitGroups, wgs,
                   mutex, workers, dropExcess, hist>>

\* A transfer goroutine that gives the message up when the new queue stays
\* full, without an error for its caller.
UpdateTransferDropping ==
    /\ upd.pc = "transferWait"
    /\ IF QueueHasSpace(upd.newQueue)
       THEN queues' = [queues EXCEPT ![upd.newQueue].buf = Append(@, upd.transfer[1])]
       ELSE UNCHANGED queues
    /\ upd' = [upd EXCEPT !.pc = "close", !.transfer = <<>>]
    /\ UNCHANGED <<cleanup, cfg, disp, ctxDone, chans, requestQueues, waitGroups, wgs,
                   mutex, workers, dropExcess, hist>>

\* The transfer goroutine and transferWaitGroup.Wait(): the message goes into
\* the new queue if it has room; otherwise the 5-second timer fires and the
\* error is sent on the message's Err (dropped after one more second if that
\* blocks too, as it does on the zero message's nil channel).
UpdateTransfer ==
    /\ upd.pc = "transferWait"
    /\ LET m == upd.transfer[1] IN
       IF QueueHasSpace(upd.newQueue)
       THEN /\ queues' = [queues EXCEPT ![upd.newQueue].buf = Append(@, m)]
            /\ UNCHANGED <<chans, hist>>
       ELSE IF m.r = 0
       THEN UNCHANGED <<queues, chans, hist>>
       ELSE IF chans[m.r].Err = <<>>
       THEN /\ chans' = [chans EXCEPT ![m.r].Err = <<newBifrostErrorFromMsg(MsgTransferFailed)>>]
            /\ SetHist(m.r, [hist[m.r] EXCEPT !.handled = TRUE, !.published = @ + 1,
                                              !.transferErr = TRUE])
            /\ UNCHANGED queues
       ELSE /\ SetHist(m.r, [hist[m.r] EXCEPT !.handled = TRUE])
            /\ UNCHANGED <<queues, chans>>
    /\ upd' = [upd EXCEPT !.pc = "close", !.transfer = <<>>]
    /\ UNCHANGED <<cleanup, cfg, disp, ctxDone, requestQueues, waitGroups, wgs,
                   mutex, workers, dropExcess>>

\* Steps 3 and 4: close(oldQueue), requestQueues.Store(providerKey, newQueue);
\* close of a channel that is already closed panics.
UpdateClose ==
    /\ upd.pc = "close"
    /\ queues' = [queues EXCEPT ![upd.oldQueue].closed = TRUE,
                                ![upd.oldQueue].closes = @ + 1]
    /\ IF queues[upd.oldQueue].closed
       THEN /\ upd' = [upd EXCEPT !.pc = "panic"]
            /\ UNCHANGED requestQueues
       ELSE /\ upd' = [upd EXCEPT !.pc = "waitWorkers"]
            /\ requestQueues' = [requestQueues EXCEPT ![upd.provider] = upd.newQueue]
    /\ UNCHANGED <<cleanup, cfg, disp, ctxDone, chans, waitGroups, wgs,
                   mutex, workers, dropExcess, hist>>

\* Steps 6 to 8 without step 5: the new wait group is stored and the new
\* workers are started without waiting for the old workers to return.
UpdateFinishWithoutWait ==
    /\ upd.pc = "waitWorkers"
    /\ waitGroups' = [waitGroups EXCEPT ![upd.provider] = Len(wgs) + 1]
    /\ wgs' = Append(wgs, cfg.conc)
    /\ workers' = workers \o StartedWorkers(upd.provider, upd.newQueue, cfg.conc)
    /\ mutex' = [mutex EXCEPT ![upd.provider] = FALSE]
    /\ upd' = [upd EXCEPT !.pc = "done"]
    /\ UNCHANGED <<cleanup, cfg, disp, ctxDone, chans, requestQueues, queues, dropExcess, hist>>

\* Steps 5 to 8: Wait on the stored wait group, store a fresh one, create the
\* adapter (the call returns the error if that fails) and start the new
\* workers on the new queue; the deferred Unlock.
UpdateFinish ==
    /\ upd.pc = "waitWorkers"
    /\ waitGroups[upd.provider] # 0 => wgs[waitGroups[upd.provider]] = 0
    /\ waitGroups' = [waitGroups EXCEPT ![upd.provider] = Len(wgs) + 1]
    /\ IF createProviderFromProviderKey(upd.provider)
       THEN /\ wgs' = Append(wgs, cfg.conc)
            /\ workers' = workers \o StartedWorkers(upd.provider, upd.newQueue, cfg.conc)
       ELSE /\ wgs' = Append(wgs, 0)
            /\ UNCHANGED workers
    /\ mutex' = [mutex EXCEPT ![upd.provider] = FALSE]
    /\ upd' = [upd EXCEPT !.pc = "done", !.failed = ~createProviderFromProviderKey(upd.provider)]
    /\ UNCHANGED <<cleanup, cfg, disp, ctxDone, chans, requestQueues, queues, dropExcess, hist>>


\* ---------------------------------------------------------------- cleanup
\* The providers whose queue requestQueues.Range has still to visit.
ToClose == {p \in Providers : requestQueues[p] # 0 /\ p \notin cleanup.visited}

\* Cleanup, one call of the first Range callback: close the queue stored for
\* provider p; close of a channel that is already closed panics.
CleanupClose(p) ==
    /\ cfg.cleanup
    /\ cleanup.pc \in {"idle", "closing"}
    /\ p \in ToClose
    /\ queues' = [queues EXCEPT ![requestQueues[p]].closed = TRUE,
                                ![requestQueues[p]].closes = @ + 1]
    /\ cleanup' = [pc |-> IF queues[requestQueues[p]].closed THEN "panic" ELSE "closing",
                   visited |-> cleanup.visited \cup {p}]
    /\ UNCHANGED <<cfg, disp, ctxDone, chans, requestQueues, waitGroups, wgs,
                   mutex, workers, dropExcess, upd, hist>>

\* Cleanup: the first Range has visited every stored queue.
CleanupRangeEnd ==
    /\ cfg.cleanup
    /\ cleanup.pc \in {"idle", "closing"}
    /\ ToClose = {}
    /\ cleanup' = [cleanup EXCEPT !.pc = "waiting"]
    /\ UNCHANGED <<cfg, disp, ctxDone, chans, requestQueues, queues, waitGroups, wgs,
                   mutex, workers, dropExcess, upd, hist>>

\* Cleanup: the second Range, Wait on every stored wait group.
CleanupWait ==
    /\ cleanup.pc = "waiting"
    /\ \A p \in Providers : waitGroups[p] # 0 => wgs[waitGroups[p]] = 0
    /\ cleanup' = [cleanup EXCEPT !.pc = "done"]
    /\ UNCHANGED <<cfg, disp, ctxDone, chans, requestQueues, queues, waitGroups, wgs,
                   mutex, workers, dropExcess, upd, hist>>


\* ------------------------------------------------------------- scenarios
ProviderIndex(p) == CHOOSE i \in 1..Len(ProviderTags) : ProviderTags[i] = p

\* A key for every model, and a key for a model no request names.
WildcardKey == MkKey(1, {}, "sk-1", 1000)
UnusedModelKey == MkKey(1, {"text-embedding-3-small"}, "sk-1", 1000)

\* One caller on the primary provider, prepared by Init(): no plugins, no
\* fallbacks, one wildcard key, an adapter that always succeeds.
BaseCfg ==
    [nReqs |-> 1, nPlugins |-> 0, nFallbacks |-> 0, kind |-> "chat_completion",
     noConfig |-> {}, initProviders |-> 1, bufSize |-> 1, conc |-> 1,
     maxRetries |-> 0, adapterErrs |-> {}, keyLists |-> {<<WildcardKey>>}, vertex |-> FALSE,
     drop |-> FALSE,
     cancellable |-> {1}, update |-> FALSE, validation |-> "passed",
     cleanup |-> FALSE, flagUpdate |-> FALSE, mcp |-> FALSE, adapterFails |-> {}]

RequestKinds == {"chat_completion", "chat_completion_stream"}

\* Sequential scenarios: one caller, the plugin pipeline and the cascade; one
\* of them with a fallback provider the account has no configuration for, one
\* with no provider prepared by Init(), one where the primary provider has
\* neither a queue nor a configuration.
PipeCfgs ==
    LET full == [BaseCfg EXCEPT !.nPlugins = NumPlugins, !.nFallbacks = MaxFallbacks,
                                !.adapterErrs = {ErrUpstream(503), ErrClient,
                                                 ErrTransport, ErrRefused},
                                !.keyLists = {<<WildcardKey>>, <<UnusedModelKey>>}]
    IN {[full EXCEPT !.nFallbacks = nf, !.kind = k] :
            nf \in {0, MaxFallbacks}, k \in RequestKinds}
       \cup {[full EXCEPT !.noConfig = {ProviderTags[2]}],
             [full EXCEPT !.initProviders = 0],
             [full EXCEPT !.initProviders = 0, !.noConfig = {PrimaryProvider}]}

\* Retry scenarios: one caller, every adapter error, every retry budget.
RetryCfgs ==
    {[BaseCfg EXCEPT !.kind = k, !.maxRetries = mr, !.adapterErrs = AllAdapterErrs] :
        k \in RequestKinds, mr \in 0..MaxRetriesBound}

\* Concurrent scenarios: several callers on one provider with a one-slot queue.
ConcCfgs ==
    {[BaseCfg EXCEPT !.nReqs = NumReqs, !.conc = MaxConc, !.drop = d,
                     !.adapterErrs = {ErrUpstream(503)}] : d \in BOOLEAN}

\* Hot-reload scenarios: several callers on one provider with a one-slot
\* queue while dropExcessRequests is stored to at any time.
FlagCfgs ==
    {[BaseCfg EXCEPT !.nReqs = NumReqs, !.drop = d, !.flagUpdate = TRUE] : d \in BOOLEAN}

\* Tool scenarios: one caller of each request kind, with and without a
\* tool-server manager.
ToolCfgs ==
    {[BaseCfg EXCEPT !.kind = k, !.mcp = m] : k \in RequestTypes, m \in BOOLEAN}

\* The keys an account may hold in the key scenarios: the supported-model
\* list names the requested model, another model or none; the value is set
\* or blank; the weight is 0, 0.015, 1 or 3.
KeyChoices(id) ==
    {MkKey(id, ms, v, wt) :
        ms \in {{PrimaryModel}, {ModelNames[2]}, {}}, v \in {"sk-1", ""},
        wt \in {0, 15, 1000, 3000}}

\* The key lists of the key scenarios: up to NumKeys keys.
RECURSIVE KeyLists(_)
KeyLists(n) ==
    IF n = 0 THEN {<<>>}
    ELSE KeyLists(n - 1)
         \cup {Append(ks, k) : ks \in {l \in KeyLists(n - 1) : Len(l) = n - 1},
                                k \in KeyChoices(n)}

\* Key scenarios: one caller, one provider (Vertex or not), every key list.
KeyCfgs ==
    {[BaseCfg EXCEPT !.keyLists = {ks}, !.vertex = v] :
        ks \in KeyLists(NumKeys), v \in BOOLEAN}

\* Adapter scenarios: two callers on a provider Init() has not prepared and
\* whose adapter cannot be created, with and without a fallback.
AdapterCfgs ==
    {[BaseCfg EXCEPT !.nReqs = 2, !.initProviders = 0, !.nFallbacks = nf,
                     !.adapterFails = {PrimaryProvider}] : nf \in {0, 1}}

\* Validation scenarios: one caller at the entry of its public request method,
\* with the matching input field present or missing, the request valid or not.
ValidationCfgs ==
    {[BaseCfg EXCEPT !.kind = k, !.validation = v, !.nFallbacks = MaxFallbacks,
                     !.adapterErrs = {ErrUpstream(503)}] :
        k \in RequestKinds, v \in {"ok", "inputMissing", "invalid"}}

\* Reconfiguration scenarios: callers on one provider that is reconfigured.
UpdateCfgs ==
    {[BaseCfg EXCEPT !.nReqs = NumReqs, !.bufSize = b, !.initProviders = ip,
                     !.cancellable = {}, !.update = TRUE] :
        b \in 1..MaxBuf, ip \in {0, 1}}

\* Lifecycle scenarios: callers on a provider that is created lazily or by
\* Init(), reconfigured once and shut down by Cleanup, in any interleaving.
LifecycleCfgs ==
    {[BaseCfg EXCEPT !.nReqs = 2, !.bufSize = b, !.initProviders = ip,
                     !.cancellable = {}, !.update = TRUE, !.cleanup = TRUE] :
        b \in 1..2, ip \in {0, 1}}

\* The state Init() leaves: the first initProviders configured providers
\* prepared in order, every caller at the entry of its request method.
InitWith(C) ==
    /\ cfg \in C
    /\ dropExcess = cfg.drop
    /\ disp = [r \in Reqs |->
                 IF r > cfg.nReqs THEN UnusedDispatcher
                 ELSE IF cfg.validation = "passed" THEN NewDispatcher
                 ELSE [NewDispatcher EXCEPT !.pc = "entry"]]
    /\ ctxDone = [r \in Reqs |-> FALSE]
    /\ chans = [r \in Reqs |-> EmptyChans]
    /\ requestQueues = [p \in Providers |->
                          IF ProviderIndex(p) <= cfg.initProviders
                          THEN ProviderIndex(p) ELSE 0]
    /\ queues = [i \in 1..cfg.initProviders |-> NewQueue(cfg.bufSize)]
    /\ waitGroups = [p \in Providers |->
                       IF ProviderIndex(p) <= cfg.initProviders
                       THEN ProviderIndex(p) ELSE 0]
    /\ wgs = [i \in 1..cfg.initProviders |->
                IF ProviderTags[i] \in cfg.adapterFails THEN 0 ELSE cfg.conc]
    /\ mutex = [p \in Providers |-> FALSE]
    /\ workers = SelectSeq([i \in 1..(cfg.initProviders * cfg.conc) |->
                               NewWorker(ProviderTags[((i - 1) \div cfg.conc) + 1],
                                         ((i - 1) \div cfg.conc) + 1)],
                            LAMBDA x : x.provider \notin cfg.adapterFails)
    /\ upd = IdleUpdate
    /\ cleanup = IdleCleanup
    /\ hist = [r \in Reqs |->
                 [NewHist EXCEPT !.tried = <<[provider |-> PrimaryProvider,
                                              model |-> PrimaryModel]>>]]

Init == InitWith(PipeCfgs \cup RetryCfgs \cup ConcCfgs \cup ValidationCfgs \cup FlagCfgs
                 \cup ToolCfgs \cup KeyCfgs \cup AdapterCfgs)

InitUpdate == InitWith(UpdateCfgs)

InitLifecycle == InitWith(LifecycleCfgs)

Next ==
    \/ \E r \in Reqs : RequestMethod(r)
    \/ \E r \in Reqs : GetQueue(r)
    \/ \E r \in Reqs : LockQueue(r)
    \/ \E r \in Reqs : PreHooks(r)
    \/ \E r \in Reqs : ScPost(r)
    \/ \E r \in Reqs : Admit(r)
    \/ \E r \in Reqs : Blocked(r)
    \/ \E r \in Reqs : Await(r)
    \/ \E r \in Reqs : Decide(r)
    \/ \E r \in Reqs : Cancel(r)
    \/ \E value \in BOOLEAN : UpdateDropExcessRequests(value)
    \/ \E w \in 1..Len(workers) : Dequeue(w)
    \/ \E w \in 1..Len(workers) : Attempt(w)
    \/ \E w \in 1..Len(workers) : Publish(w)

Spec == Init /\ [][Next]_vars

\* Publishing scenarios: two callers that may cancel at any time, one provider
\* prepared by Init() with a one-slot queue, keys that may not support the
\* model, an adapter that may fail.
PublishCfgs ==
    {[BaseCfg EXCEPT !.nReqs = 2, !.conc = MaxConc, !.kind = k, !.cancellable = {1, 2},
                     !.adapterErrs = {ErrUpstream(503)},
                     !.keyLists = {<<WildcardKey>>, <<UnusedModelKey>>}] :
        k \in RequestKinds}

InitPublish == InitWith(PublishCfgs)

NextPublish ==
    \/ \E r \in Reqs : GetQueue(r)
    \/ \E r \in Reqs : PreHooks(r)
    \/ \E r \in Reqs : Admit(r)
    \/ \E r \in Reqs : Blocked(r)
    \/ \E r \in Reqs : Await(r)
    \/ \E r \in Reqs : Decide(r)
    \/ \E r \in Reqs : Cancel(r)
    \/ \E w \in 1..Len(workers) : Dequeue(w)
    \/ \E w \in 1..Len(workers) : Attempt(w)
    \/ \E w \in 1..Len(workers) : Publish(w)

\* A worker goroutine that can take a step of its publish select takes it:
\* the runtime schedules it, and the select's timer fires after 5 seconds.
WorkerPublishes(w) == w <= Len(workers) /\ Publish(w)

SpecPublish ==
    InitPublish /\ [][NextPublish]_vars /\ \A w \in 1..MaxConc : WF_vars(WorkerPublishes(w))

\* The reconfiguration scenarios register no plugin and cancel no request.
NextUpdate ==
    \/ \E r \in Reqs : GetQueue(r)
    \/ \E r \in Reqs : LockQueue(r)
    \/ \E r \in Reqs : PreHooks(r)
    \/ \E r \in Reqs : Admit(r)
    \/ \E r \in Reqs : Blocked(r)
    \/ \E r \in Reqs : Await(r)
    \/ \E r \in Reqs : Decide(r)
    \/ \E w \in 1..Len(workers) : Dequeue(w)
    \/ \E w \in 1..Len(workers) : Attempt(w)
    \/ \E w \in 1..Len(workers) : Publish(w)
    \/ \E w \in 1..Len(workers) : WorkerExit(w)
    \/ UpdateStart(PrimaryProvider)
    \/ UpdateDrain
    \/ UpdateTransfer
    \/ UpdateClose
    \/ UpdateFinish

SpecUpdate == InitUpdate /\ [][NextUpdate]_vars

\* Reconfiguration scenarios for progress: two callers on one provider that
\* is prepared by Init() or lazily and reconfigured once.
ReconfigureCfgs ==
    {[BaseCfg EXCEPT !.nReqs = 2, !.bufSize = b, !.initProviders = ip,
                     !.cancellable = {}, !.update = TRUE] :
        b \in 1..2, ip \in {0, 1}}

InitReconfigure == InitWith(ReconfigureCfgs)

\* The steps of worker w: the goroutine is scheduled, its adapter call
\* returns, the timer of its publish select fires.
WorkerRuns(w) ==
    w <= Len(workers) /\ (Dequeue(w) \/ Attempt(w) \/ Publish(w) \/ WorkerExit(w))

\* The steps of the goroutine that called UpdateProviderConcurrency; the
\* timers of the transfer goroutine fire.
UpdateRuns == UpdateDrain \/ UpdateTransfer \/ UpdateClose \/ UpdateFinish

\* The reconfiguration under fair scheduling: the updating goroutine and
\* every worker goroutine keep running, and a dispatcher waiting for the
\* provider lock gets it once it stays free.
SpecReconfigure ==
    /\ InitReconfigure
    /\ [][NextUpdate]_vars
    /\ WF_vars(UpdateRuns)
    /\ \A w \in 1..(2 * MaxConc) : WF_vars(WorkerRuns(w))
    /\ \A r \in Reqs : WF_vars(GetQueue(r))

NextLifecycle ==
    \/ \E r \in Reqs : GetQueue(r)
    \/ \E r \in Reqs : LockQueue(r)
    \/ \E r \in Reqs : PreHooks(r)
    \/ \E r \in Reqs : Admit(r)
    \/ \E r \in Reqs : Blocked(r)
    \/ \E r \in Reqs : Await(r)
    \/ \E r \in Reqs : Decide(r)
    \/ \E w \in 1..Len(workers) : Dequeue(w)
    \/ \E w \in 1..Len(workers) : Attempt(w)
    \/ \E w \in 1..Len(workers) : Publish(w)
    \/ \E w \in 1..Len(workers) : WorkerExit(w)
    \/ UpdateStart(PrimaryProvider)
    \/ UpdateDrain
    \/ UpdateTransfer
    \/ UpdateClose
    \/ UpdateFinish
    \/ \E p \in Providers : CleanupClose(p)
    \/ CleanupRangeEnd
    \/ CleanupWait

SpecLifecycle == InitLifecycle /\ [][NextLifecycle]_vars

\* ================================================================ claims
Reverse(q) == [i \in 1..Len(q) |-> q[Len(q) + 1 - i]]

\* C1: every request admitted into a provider queue gets exactly one outcome
\* (response, stream or error). The dispatcher waits on the message's sinks
\* alone, so the claim needs that whoever disposes of an admitted message
\* (a worker's publish, a key failure, the transfer goroutine) has put exactly
\* one outcome into its sinks, the caller's token fired or not.
C1_AdmittedGetsOneOutcome ==
    \A r \in Reqs :
        (hist[r].admitted /\ hist[r].handled) => hist[r].published = 1

\* C2: when a try of a non-streaming request has ended by short-circuit or by
\* an adapter outcome, the post-hooks that ran are those of the plugins whose
\* pre-hook ran, each once, in reverse registration order.
C2_PostHooksMirrorPreHooks ==
    \A r \in Reqs :
        (/\ disp[r].pc = "decide"
         /\ ~isStreamRequestType(cfg.kind)
         /\ hist[r].ended \in {"shortcircuit", "adapter"})
        => hist[r].postRan = Reverse(hist[r].preRan)

\* C3: with MaxRetries >= 1, a non-streaming admission whose first adapter call
\* returned a non-Bifrost error with a retryable status, the request not
\* cancelled, is not published before the adapter has been invoked a second time.
C3_RetryableErrorIsRetried ==
    \A w \in 1..Len(workers) :
        LET x == workers[w] IN
        (/\ x.pc = "publish"
         /\ cfg.maxRetries >= 1
         /\ ~isStreamRequestType(x.msg[1].kind)
         /\ ~ctxDone[x.msg[1].r]
         /\ x.err # <<>>
         /\ ~x.err[1].IsBifrostError
         /\ x.err[1].StatusCode \in retryableStatusCodes
         /\ x.err[1].Type # RequestCancelled)
        => hist[x.msg[1].r].calls >= 2

\* C4: a dispatcher waiting for queue space or for a result whose caller's
\* token has fired can return on its own, whatever the worker does.
C4_CancelAbortsWaits ==
    \A r \in Reqs :
        (ctxDone[r] /\ disp[r].pc \in {"blocked", "await"})
        => ENABLED (Blocked(r) \/ Await(r))


\* C5: a message buffered in the provider's queue when UpdateProviderConcurrency
\* starts is dequeued by a worker of the new pool only (or its caller gets the
\* transfer error): no worker takes it from any queue but the new one.
C5_BufferedReachNewPool ==
    \A r \in Reqs :
        (hist[r].buffered /\ hist[r].deqNo > 0) => hist[r].deqQueue = upd.newQueue

\* C6: of two messages admitted to the same provider, the one admitted first is
\* dequeued first, a reconfiguration of the provider in between or not.
C6_FifoPerProvider ==
    \A a, b \in Reqs :
        (/\ hist[a].admitNo > 0
         /\ hist[a].admitNo < hist[b].admitNo
         /\ hist[b].deqNo > 0)
        => (hist[a].deqNo > 0 /\ hist[a].deqNo < hist[b].deqNo)

\* The drop-excess case of an admission: caller r is at the admission select,
\* the flag is set and its provider's (open) queue has no free slot.
DropCase(r) ==
    /\ disp[r].pc = "admit"
    /\ dropExcess
    /\ ~queues[disp[r].queue].closed
    /\ ~QueueHasSpace(disp[r].queue)

\* The step of caller r's dispatcher.
Steps(r) == disp'[r] # disp[r]

\* C7 as the specification states it: with the drop-excess flag set and the
\* queue full, the admission returns the queue-full error at once, the message
\* is not enqueued, and the queue and the workers are left as they are.
C7_FullQueueAlwaysQueueFullError ==
    [][\A r \in Reqs :
         (DropCase(r) /\ Steps(r)) =>
            /\ disp'[r].pc = "decide"
            /\ disp'[r].res = [resp |-> <<>>, err |-> <<newBifrostErrorFromMsg(MsgQueueFull)>>]
            /\ ~hist'[r].admitted
            /\ queues' = queues
            /\ workers' = workers]_vars

\* C7, amended: with the drop-excess flag set and the queue full, the admission
\* returns an error at once without blocking: the queue-full error, or the
\* "cancelled while waiting for queue space" error when the caller's token has
\* already fired. The message is not enqueued; the queue, the workers and the
\* other callers' outcome sinks are left as they are.
C7_DropExcessRejectsAtOnce ==
    [][\A r \in Reqs :
         (DropCase(r) /\ Steps(r)) =>
            /\ disp'[r].pc = "decide"
            /\ disp'[r].res =
                 [resp |-> <<>>,
                  err |-> <<newBifrostErrorFromMsg(IF ctxDone[r] THEN MsgCancelledWaiting
                                                                ELSE MsgQueueFull)>>]
            /\ ~hist'[r].admitted
            /\ queues' = queues
            /\ workers' = workers
            /\ \A s \in Reqs \ {r} : chans'[s] = chans[s] /\ disp'[s] = disp[s]]_vars

\* A caller has been turned away with the queue-full error while another
\* caller's message sits in the queue and a third is with the worker.
C7_Witness ==
    \E r \in Reqs :
        /\ disp[r].pc = "decide"
        /\ dropExcess
        /\ disp[r].res.err = <<newBifrostErrorFromMsg(MsgQueueFull)>>
        /\ ~hist[r].admitted
        /\ BufferedIn(disp[r].queue) # {}
        /\ \E w \in 1..Len(workers) : workers[w].pc = "attempt"

\* The target of the primary try.
PrimaryTarget == [provider |-> PrimaryProvider, model |-> PrimaryModel]

\* The try of caller r that a pre-hook short-circuited with a response.
ShortCircuitedWithResponse(r) ==
    /\ disp[r].pc \in {"decide", "done"}
    /\ hist[r].sc = "scResp"
    /\ hist[r].ended = "shortcircuit"

\* C8 as the specification states it: after a pre-hook short-circuits the
\* primary try with a response, the dispatcher returns a response to the
\* caller and the fallback list is not iterated.
C8_ShortCircuitAlwaysReturnsResponse ==
    [][\A r \in Reqs :
         (ShortCircuitedWithResponse(r) /\ disp[r].pc = "decide" /\ disp[r].try = 0
            /\ Steps(r)) =>
            /\ disp'[r].pc = "done"
            /\ disp'[r].out.err = <<>>
            /\ disp'[r].out.resp # <<>>
            /\ hist'[r].tried = <<PrimaryTarget>>]_vars

\* C8, amended: a pre-hook that short-circuits with a response stops the
\* pre-hooks (later plugins never run), the post-hooks run in reverse over the
\* executed prefix only, the message is not admitted and no adapter is called
\* for the try. If the post-hooks leave no error, the dispatcher returns their
\* response without iterating the fallback list; a post-hook that invalidates
\* the response makes the try end with that post-hook's error instead.
C8_ShortCircuitResponse ==
    \A r \in Reqs :
        ShortCircuitedWithResponse(r) =>
            /\ hist[r].preRan = [i \in 1..disp[r].preCount |-> i]
            /\ hist[r].postRan = Reverse(hist[r].preRan)
            /\ ~hist[r].admitted
            /\ (disp[r].try = 0 => hist[r].callLog = <<>>)
            /\ (disp[r].res.err = <<>> => disp[r].res.resp # <<>>)
            /\ (disp[r].res.err # <<>> =>
                  disp[r].res.err[1].Message \in {"invalidated", "post-hook error", ""})
            /\ (disp[r].pc = "done" /\ disp[r].res.err = <<>>) =>
                  /\ disp[r].out = [resp |-> disp[r].res.resp, err |-> <<>>]
                  /\ (disp[r].try = 0 => hist[r].tried = <<PrimaryTarget>>)

\* The first of two plugins short-circuited the primary try with a response;
\* the caller has that response, the second plugin never ran, no fallback was
\* tried although the request lists some.
C8_Witness ==
    \E r \in Reqs :
        /\ ShortCircuitedWithResponse(r)
        /\ disp[r].pc = "done"
        /\ disp[r].try = 0
        /\ hist[r].tried = <<PrimaryTarget>> /\ hist[r].callLog = <<>>
        /\ cfg.nPlugins = 2 /\ cfg.nFallbacks > 0
        /\ hist[r].preRan = <<1>> /\ hist[r].postRan = <<1>>
        /\ disp[r].out = [resp |-> <<MkResp("plugin", "", "")>>, err |-> <<>>]

\* C9: the error of a cancellation detected while the dispatcher waits for
\* queue space does not start the fallback cascade: it is never the primary
\* error a cascade was started from.
C9_CancelledAdmissionNeverCascades ==
    \A r \in Reqs :
        disp[r].primaryErr # <<>> => disp[r].primaryErr[1].Message # MsgCancelledWaiting

\* The fallback entries tried up to entry k: those the account has a
\* configuration for, in list order.
TriedUpTo(k) ==
    SelectSeq([i \in 1..k |-> FallbackEntry(i)], LAMBDA f : f.provider \notin cfg.noConfig)

\* The model the request carries when it is sent to provider p.
ModelFor(p) == ModelNames[ProviderIndex(p)]

\* C10: fallbacks are tried strictly in list order, each with the provider
\* and the model of its own entry, after a primary error; a fallback try that
\* succeeds ends the cascade and the caller receives that try's response and
\* no error (so with [P1, P2], primary and P1 failing retryably and P2
\* succeeding, the caller has P2's response).
C10_FallbackCascade ==
    \A r \in Reqs :
        (disp[r].try >= 1 /\ disp[r].pc # "panic") =>
            /\ disp[r].primaryErr # <<>>
            /\ hist[r].tried = <<PrimaryTarget>> \o TriedUpTo(disp[r].try)
            /\ disp[r].provider = FallbackEntry(disp[r].try).provider
            /\ disp[r].model = FallbackEntry(disp[r].try).model
            /\ \A i \in 1..Len(hist[r].callLog) :
                  hist[r].callLog[i].model = ModelFor(hist[r].callLog[i].provider)
            /\ (disp[r].pc \in {"decide", "done"} /\ disp[r].res.resp # <<>>
                  /\ disp[r].res.resp[1].by \in {"adapter", "stream"}) =>
                  /\ disp[r].res.resp[1].provider = FallbackEntry(disp[r].try).provider
                  /\ disp[r].res.resp[1].model = FallbackEntry(disp[r].try).model
            /\ (disp[r].pc = "done" /\ disp[r].res.err = <<>>) =>
                  disp[r].out = [resp |-> disp[r].res.resp, err |-> <<>>]

\* Primary and first fallback failed with 503, the second fallback answered:
\* three adapter calls in list order, the caller holds the second fallback's
\* response and no error.
C10_Witness ==
    \E r \in Reqs :
        /\ disp[r].pc = "done"
        /\ disp[r].try = 2
        /\ disp[r].primaryErr = <<ErrUpstream(503)>>
        /\ hist[r].tried = <<PrimaryTarget, FallbackEntry(1), FallbackEntry(2)>>
        /\ hist[r].callLog = <<PrimaryTarget, FallbackEntry(1), FallbackEntry(2)>>
        /\ disp[r].out = [resp |-> <<MkResp("adapter", FallbackEntry(2).provider,
                                            FallbackEntry(2).model)>>,
                          err |-> <<>>]

\* An error that lets the cascade go on: no cancellation, no AllowFallbacks=false.
LetsCascadeGoOn(e) == e.Type # RequestCancelled /\ e.AllowFallbacks # "false"

\* Caller r's call has returned after the cascade ran out: the primary failed,
\* the last try failed without aborting, every later entry has no configuration.
CascadeExhausted(r) ==
    /\ disp[r].pc = "done"
    /\ disp[r].primaryErr # <<>>
    /\ disp[r].res.err # <<>>
    /\ LetsCascadeGoOn(disp[r].res.err[1])
    /\ \A i \in (disp[r].try + 1)..cfg.nFallbacks : FallbackEntry(i).provider \in cfg.noConfig

\* C11: when the primary fails and every fallback fails or is skipped without
\* aborting the cascade, the caller receives the primary error stamped with
\* the primary provider tag, no response, and not a fallback's error.
C11_ExhaustedCascadeReturnsPrimaryError ==
    \A r \in Reqs :
        CascadeExhausted(r) =>
            /\ disp[r].out.resp = <<>>
            /\ disp[r].out.err = <<[disp[r].primaryErr[1] EXCEPT !.Provider = PrimaryProvider]>>

\* The primary failed with 503, both fallbacks were tried and failed, the last
\* with a 400; the caller holds the 503 error tagged with the primary provider.
C11_Witness ==
    \E r \in Reqs :
        /\ CascadeExhausted(r)
        /\ disp[r].try = 2
        /\ hist[r].tried = <<PrimaryTarget, FallbackEntry(1), FallbackEntry(2)>>
        /\ disp[r].res.err = <<ErrClient>>
        /\ disp[r].out = [resp |-> <<>>,
                          err |-> <<[ErrUpstream(503) EXCEPT !.Provider = PrimaryProvider]>>]

\* An error caused by the caller's cancellation: the adapter's cancellation
\* error, or the dispatcher's "cancelled while waiting for queue space".
CausedByCancellation(e) == e.Type = RequestCancelled \/ e.Message = MsgCancelledWaiting

\* C12: after a primary error the cascade is taken if and only if the error was
\* not caused by caller cancellation, does not carry AllowFallbacks=false and
\* the fallback list is not empty; when it is not taken the caller receives the
\* primary outcome unchanged apart from the provider tag.
C12_CascadeTakenIff ==
    [][\A r \in Reqs :
         (disp[r].pc = "decide" /\ disp[r].try = 0 /\ disp[r].res.err # <<>> /\ Steps(r)) =>
            LET e == disp[r].res.err[1]
                taken == disp'[r].primaryErr # <<>>
            IN /\ taken <=> ~(\/ CausedByCancellation(e)
                              \/ e.AllowFallbacks = "false"
                              \/ cfg.nFallbacks = 0)
               /\ ~taken =>
                     /\ disp'[r].pc = "done"
                     /\ disp'[r].out = [resp |-> disp[r].res.resp,
                                        err |-> <<[e EXCEPT !.Provider = PrimaryProvider]>>]
                     /\ hist'[r].tried = <<PrimaryTarget>>]_vars

\* C13: a fallback try that ends with an error caused by caller cancellation
\* or carrying AllowFallbacks=false aborts the cascade: no later fallback is
\* tried and the caller receives that error with the fallback's provider tag.
C13_FallbackAbortsCascade ==
    [][\A r \in Reqs :
         (disp[r].pc = "decide" /\ disp[r].try >= 1 /\ disp[r].res.err # <<>> /\ Steps(r)) =>
            LET e == disp[r].res.err[1] IN
            (CausedByCancellation(e) \/ e.AllowFallbacks = "false") =>
               /\ disp'[r].pc = "done"
               /\ disp'[r].out = [resp |-> <<>>,
                                  err |-> <<[e EXCEPT !.Provider =
                                                FallbackEntry(disp[r].try).provider]>>]
               /\ hist'[r].tried = hist[r].tried]_vars

\* C14: for one admission the worker invokes the adapter at most MaxRetries+1
\* times, whatever the adapter returns; the loop counter never passes MaxRetries.
C14_AtMostMaxRetriesPlusOneCalls ==
    /\ \A r \in Reqs : hist[r].calls <= cfg.maxRetries + 1
    /\ \A w \in 1..Len(workers) : workers[w].attempts <= cfg.maxRetries

\* A worker has left the retry loop with a retryable error (503, not
\* infrastructural) under a retry budget of one, having called the adapter.
C14_Witness ==
    \E w \in 1..Len(workers) :
        /\ workers[w].pc = "publish"
        /\ cfg.maxRetries = MaxRetriesBound
        /\ workers[w].err = <<ErrUpstream(503)>>
        /\ hist[workers[w].msg[1].r].calls >= 1

\* C15: when the admission's token has already fired at the moment the worker
\* dequeues the message, the worker makes no adapter invocation for it.
C15_CancelledBeforeFirstCallNoInvocation ==
    \A r \in Reqs : hist[r].cancelledAtDeq => hist[r].calls = 0

\* C16: every error a public request method returns to the caller carries a
\* non-empty provider tag.
C16_ReturnedErrorCarriesProvider ==
    \A r \in Reqs :
        (disp[r].pc = "done" /\ disp[r].out.err # <<>>) => disp[r].out.err[1].Provider # ""

\* C17: for each provider that has a queue stored, the stored queue is open
\* until Cleanup begins, and no queue is ever closed more than once, whatever
\* the interleaving of lazy creation, UpdateProviderConcurrency and Cleanup.
C17_OneLiveQueueClosedOnce ==
    /\ cleanup.pc = "idle" =>
          \A p \in Providers : requestQueues[p] # 0 => ~queues[requestQueues[p]].closed
    /\ \A q \in 1..Len(queues) : queues[q].closes <= 1

\* The callers whose message was buffered when the reconfiguration started.
BufferedAtStart == {r \in Reqs : hist[r].buffered}

\* C18: when UpdateProviderConcurrency runs with a new buffer size of at least
\* the number of buffered messages, no caller whose request was buffered or in
\* flight gets the transfer error or any other error: its message is handled
\* once, the outcome is published, and what the caller receives is its
\* adapter's outcome.
C18_ReconfigurationCausesNoError ==
    (upd.newQueue # 0 /\ cfg.bufSize >= Cardinality(BufferedAtStart)) =>
        \A r \in Reqs :
            (hist[r].buffered \/ hist[r].inFlight) =>
                /\ ~hist[r].transferErr
                /\ disp[r].pc # "panic"
                /\ hist[r].handled => hist[r].published = 1
                /\ disp[r].pc \in {"decide", "done"} =>
                      disp[r].res = [resp |-> <<MkResp("adapter", PrimaryProvider, PrimaryModel)>>,
                                     err |-> <<>>]

\* The reconfiguration is over; two messages were buffered and one in flight
\* when it started, the new queue had room for both; all three callers hold
\* their adapter's response and a buffered one was served from the new queue.
C18_Witness ==
    /\ upd.pc = "done"
    /\ upd.newQueue # 0
    /\ Cardinality(BufferedAtStart) = 2
    /\ cfg.bufSize >= 2
    /\ \E r \in Reqs : hist[r].inFlight
    /\ \E r \in BufferedAtStart : hist[r].deqQueue = upd.newQueue
    /\ \A r \in Reqs :
          /\ disp[r].pc = "done"
          /\ disp[r].out = [resp |-> <<MkResp("adapter", PrimaryProvider, PrimaryModel)>>,
                            err |-> <<>>]

\* The try of caller r has returned after post-hooks that left both a response
\* and an error set.
PostHooksLeftBoth(r) ==
    /\ disp[r].pc \in {"decide", "done"}
    /\ hist[r].ended \in {"shortcircuit", "adapter"}
    /\ hist[r].postLeft.resp # <<>>
    /\ hist[r].postLeft.err # <<>>

\* C19: when the post-hooks leave both a response and an error, the try's
\* outcome is the error, unless the error is structurally empty (no status
\* code, no type, empty message, no cause): then the outcome is the response
\* and the error is dropped. The dispatcher never returns both.
C19_FinalReconciliation ==
    \A r \in Reqs :
        /\ ~(disp[r].res.resp # <<>> /\ disp[r].res.err # <<>>)
        /\ ~(disp[r].out.resp # <<>> /\ disp[r].out.err # <<>>)
        /\ PostHooksLeftBoth(r) =>
              LET e == hist[r].postLeft.err[1] IN
              IF e.StatusCode = 0 /\ e.Type = "" /\ e.Message = "" /\ ~e.Cause
              THEN disp[r].res = [resp |-> hist[r].postLeft.resp, err |-> <<>>]
              ELSE disp[r].res = [resp |-> <<>>, err |-> hist[r].postLeft.err]

\* Both reconciliation cases have happened to tries that got an adapter
\* response: post-hooks left it with a real error, and the try returned the
\* error alone.
C19_Witness ==
    \E r \in Reqs :
        /\ PostHooksLeftBoth(r)
        /\ hist[r].ended = "adapter"
        /\ hist[r].postLeft.resp = <<MkResp("adapter", disp[r].provider, disp[r].model)>>
        /\ hist[r].postLeft.err[1].Message = "post-hook error"
        /\ disp[r].res = [resp |-> <<>>, err |-> hist[r].postLeft.err]

\* The current try of caller r ended by a pre-hook's short-circuit.
ShortCircuitedTry(r) ==
    /\ disp[r].pc \in {"scPost", "decide", "done"}
    /\ hist[r].sc \in {"scResp", "scErr", "scErrNoFallback"}
    /\ hist[r].ended \in {"", "shortcircuit"}

\* C20 as stated: a short-circuited try has neither obtained nor created the
\* provider's queue and workers, and a try on a provider without
\* configuration still runs its pre-hooks (so a short-circuit can be returned).
C20_ShortCircuitNeverTouchesQueue ==
    \A r \in Reqs :
        /\ ShortCircuitedTry(r) => (~hist[r].created /\ disp[r].queue = 0)
        /\ hist[r].ended = "noqueue" => hist[r].preRan # <<>>

\* The step that returns caller r's short-circuit outcome.
ShortCircuitReturn(r) == disp[r].pc = "scPost" /\ disp'[r].pc # "scPost"

\* C20: the dispatcher obtains the provider's queue, creating queue, latch and
\* workers if absent, before the pre-hooks run; a provider without queue and
\* without configuration ends the try with the configuration error before any
\* pre-hook runs. The short-circuit return itself admits nothing and leaves
\* queues, latches and workers unchanged.
C20_QueueObtainedBeforePreHooks ==
    [][\A r \in Reqs :
          /\ disp'[r].pc \in {"preHooks", "scPost"} =>
                /\ disp'[r].queue # 0
                /\ disp'[r].queue = requestQueues'[disp'[r].provider]
          /\ hist'[r].ended = "noqueue" =>
                /\ hist'[r].preRan = <<>>
                /\ hist'[r].postRan = <<>>
                /\ disp'[r].res.err = <<newBifrostError(MsgNoConfig)>>
          /\ ShortCircuitReturn(r) =>
                /\ ~hist'[r].admitted
                /\ UNCHANGED <<requestQueues, queues, waitGroups, wgs, workers, chans>>]_vars

\* A try on a provider Init() had not prepared has created the provider's
\* queue and workers and then returned a pre-hook's short-circuit response.
C20_Witness ==
    \E r \in Reqs :
        /\ cfg.initProviders = 0
        /\ hist[r].created
        /\ hist[r].ended = "shortcircuit"
        /\ disp[r].pc = "done"
        /\ requestQueues[PrimaryProvider] # 0
        /\ Len(workers) = cfg.conc
        /\ disp[r].out.resp # <<>>

\* C21: with MaxRetries >= 1, a streaming admission whose first adapter call
\* returned an establishment error with a retryable status, the request not
\* cancelled, is not published before the adapter has been invoked again.
C21_StreamEstablishmentErrorIsRetried ==
    \A w \in 1..Len(workers) :
        LET x == workers[w] IN
        (/\ x.pc = "publish"
         /\ cfg.maxRetries >= 1
         /\ isStreamRequestType(x.msg[1].kind)
         /\ ~ctxDone[x.msg[1].r]
         /\ x.err # <<>>
         /\ x.err[1].StatusCode \in retryableStatusCodes
         /\ x.err[1].Type # RequestCancelled)
        => hist[x.msg[1].r].calls > 1

\* Caller r's admission has just failed with the given message.
AdmissionFailsWith(r, msg) ==
    /\ disp[r].pc \in {"admit", "blocked"}
    /\ disp'[r].pc = "decide"
    /\ disp'[r].res = [resp |-> <<>>, err |-> <<newBifrostErrorFromMsg(msg)>>]

C23_ToolsMergedUnlessEmbeddingOrSpeech ==
    \A r \in Reqs :
        hist[r].tools # "" =>
            (hist[r].tools = "merged" <=>
                (cfg.mcp /\ cfg.kind \notin {"embedding", "speech", "speech_stream"}))

\* The candidate keys of the selection a worker made for caller r's message.
CandidatesOf(r) == supportedKeys(hist[r].keys, cfg.vertex, disp[r].model)

\* The number of values of the uniform pick that select candidate i.
Picks(sup, i) ==
    Cardinality({rv \in 0..(totalWeight(sup) - 1) : WalkKeys(sup, 1, 0, rv) = sup[i]})

\* C24: a selection among two or more candidate keys draws its pick and gives
\* each candidate a number of picks proportional to its weight (for weights 1
\* and 3, picks in the ratio 1:3).
C24_PicksProportionalToWeight ==
    \A r \in Reqs :
        (hist[r].deqNo > 0 /\ Len(CandidatesOf(r)) >= 2) =>
            LET sup == CandidatesOf(r) IN
            /\ hist[r].keyErr # "panic"
            /\ \A i, j \in 1..Len(sup) :
                  Picks(sup, i) * sup[j].Weight = Picks(sup, j) * sup[i].Weight

\* The candidate set as specified: the keys whose supported-model list holds
\* the model or is empty, with a value that is not blank unless the provider
\* is Vertex.
SpecifiedCandidates(keys, isVertex, model) ==
    {keys[i] : i \in {n \in 1..Len(keys) :
                        /\ (model \in keys[n].Models \/ keys[n].Models = {})
                        /\ (TrimSpace(keys[n].Value) # "" \/ isVertex)}}

\* C25: a selection that returns (a key or an error) returns only a key of
\* the candidate set, fails exactly when that set is empty (with the
\* no-keys-support-model error if the account holds any key), and returns the
\* sole candidate when there is exactly one.
C25_SelectorReturnsACandidate ==
    \A r \in Reqs :
        (hist[r].deqNo > 0 /\ hist[r].keyErr # "panic") =>
            LET cand == SpecifiedCandidates(hist[r].keys, cfg.vertex, disp[r].model) IN
            /\ hist[r].key # <<>> => hist[r].key[1] \in cand
            /\ (hist[r].keyErr # "") <=> (cand = {})
            /\ (hist[r].keyErr # "" /\ hist[r].keys # <<>>) => hist[r].keyErr = MsgNoKeys
            /\ Cardinality(cand) = 1 => hist[r].key = <<CHOOSE k \in cand : TRUE>>

\* Worker w holds an outcome it has to publish: after the adapter call, or
\* blocked in the send of a key-selection or configuration failure.
HasToPublish(w) == w <= Len(workers) /\ workers[w].pc \in {"publish", "blockedErr"}

\* C26: a worker that has an outcome to publish is back at its queue's receive
\* afterwards, whatever the dispatcher and the caller's token do.
C26_PublishingWorkerReturnsToDequeue ==
    \A w \in 1..MaxConc : HasToPublish(w) ~> (workers[w].pc = "idle")

\* A worker holds an error outcome for a caller whose token has fired, and a
\* message has been answered with a key-selection failure.
C26_Witness ==
    /\ \E w \in 1..MaxConc :
         /\ HasToPublish(w)
         /\ ctxDone[workers[w].msg[1].r]
         /\ workers[w].err # <<>>
    /\ \E r \in Reqs : hist[r].keyErr = MsgNoKeys

\* The workers that are started on queue q after the step.
WorkersOf(q) == {w \in 1..Len(workers') : workers'[w].queue = q}

\* Worker w leaves its receive loop in this step.
Exits(w) == workers[w].pc # "exited" /\ workers'[w].pc = "exited"

IsRetryable(err) ==
    /\ err # <<>>
    /\ err[1].StatusCode \in retryableStatusCodes
    /\ err[1].Type # RequestCancelled

\* Worker w has made an adapter call in this step.
Calls(w) == workers[w].pc = "attempt" /\ workers'[w] # workers[w]

\* C28: after a call that succeeded, failed with a status outside the
\* retryable set or failed with request_cancelled, the worker goes on to
\* publish and makes no further call; the attempt index increases only after
\* a retryable error.
C28_NoRetryAfterFinalOutcome ==
    [][\A w \in 1..Len(workers) :
          Calls(w) =>
              /\ ~IsRetryable(workers'[w].err) =>
                    /\ workers'[w].pc = "publish"
                    /\ workers'[w].attempts = workers[w].attempts
              /\ workers'[w].attempts > workers[w].attempts => IsRetryable(workers'[w].err)
              /\ workers'[w].pc = "attempt" => IsRetryable(workers'[w].err)]_vars

\* With a retry left, a worker is about to publish the error with status 400
\* that its only call returned, its attempt index still 0.
C28_Witness ==
    \E w \in 1..Len(workers) :
        LET x == workers[w] IN
        /\ x.pc = "publish"
        /\ cfg.maxRetries >= 1
        /\ x.attempts = 0
        /\ hist[x.msg[1].r].calls = 1
        /\ x.err # <<>>
        /\ x.err[1].StatusCode = 400

\* The try of caller r that has returned got an adapter error that the
\* post-hooks turned into a response.
Recovered(r) ==
    /\ disp[r].pc \in {"decide", "done"}
    /\ hist[r].ended = "adapter"
    /\ hist[r].adapterOut = "err"
    /\ hist[r].postLeft.resp # <<>>
    /\ hist[r].postLeft.err = <<>>

\* The try of caller r that has returned got an adapter response that the
\* post-hooks turned into an error.
Invalidated(r) ==
    /\ disp[r].pc \in {"decide", "done"}
    /\ hist[r].ended = "adapter"
    /\ hist[r].adapterOut = "resp"
    /\ hist[r].postLeft.resp = <<>>
    /\ hist[r].postLeft.err # <<>>

\* The fallback decision taken on error e after try number try: TRUE when the
\* cascade stops with e.
StopsCascade(try, e) ==
    IF try = 0 THEN ~shouldTryFallbacks(cfg.nFallbacks, <<e>>).go
    ELSE ~shouldContinueWithFallbacks(FallbackEntry(try), e).go

\* C29: a try whose adapter error a post-hook recovered returns the response,
\* and the dispatcher returns it as a success without another try; a try whose
\* adapter response a post-hook invalidated returns the post-hook's error, and
\* the dispatcher stops or goes on to the next fallback as the fallback
\* decision on that error says.
C29_RecoveryAndInvalidation ==
    [][\A r \in Reqs :
          /\ Recovered(r)' =>
                disp'[r].res = [resp |-> hist'[r].postLeft.resp, err |-> <<>>]
          /\ Invalidated(r)' =>
                disp'[r].res = [resp |-> <<>>, err |-> hist'[r].postLeft.err]
          /\ (Recovered(r) /\ disp[r].pc = "decide" /\ disp'[r] # disp[r]) =>
                /\ disp'[r].pc = "done"
                /\ disp'[r].out = [resp |-> hist[r].postLeft.resp, err |-> <<>>]
                /\ hist'[r].tried = hist[r].tried
          /\ (Invalidated(r) /\ disp[r].pc = "decide" /\ disp'[r] # disp[r]) =>
                LET e == hist[r].postLeft.err[1] IN
                IF StopsCascade(disp[r].try, e)
                THEN /\ disp'[r].pc = "done"
                     /\ disp'[r].out.resp = <<>>
                     /\ disp'[r].out.err = <<Stamp(e, disp[r].provider)>>
                ELSE \/ /\ disp'[r].pc = "done"
                        /\ NextFallback(disp[r].try + 1, cfg.nFallbacks, cfg.noConfig) = 0
                        /\ disp'[r].out.resp = <<>>
                        /\ disp'[r].out.err # <<>>
                     \/ /\ disp'[r].pc = "getQueue"
                        /\ disp'[r].try > disp[r].try
                        /\ Len(hist'[r].tried) = Len(hist[r].tried) + 1]_vars

\* The primary try's adapter error was recovered by a post-hook and the caller
\* got the response although fallbacks were listed; none was tried.
C29_Witness ==
    \E r \in Reqs :
        /\ Recovered(r)
        /\ disp[r].pc = "done"
        /\ disp[r].try = 0
        /\ cfg.nFallbacks > 0
        /\ Len(hist[r].tried) = 1
        /\ disp[r].out.resp # <<>>

\* Message m is buffered in queue q after the step.
InQueueNext(m, q) == \E i \in 1..Len(queues'[q].buf) : queues'[q].buf[i] = m

\* The drain loop takes the head of the old queue in this step.
DrainRemoves ==
    /\ upd.pc = "drain"
    /\ queues[upd.oldQueue].buf # <<>>
    /\ queues'[upd.oldQueue].buf = Tail(queues[upd.oldQueue].buf)
    /\ upd' # upd

\* C30: a message the drain removes from the old queue goes into the new queue
\* or to the transfer goroutine; the goroutine ends with the message in the
\* new queue or with the transfer error delivered on the message's error
\* sink; the old queue is closed only when no goroutine holds a message.
C30_DrainedMessageIsNeverLost ==
    [][/\ DrainRemoves =>
            LET m == Head(queues[upd.oldQueue].buf) IN
            \/ InQueueNext(m, upd.newQueue) /\ upd'.transfer = <<>>
            \/ ~InQueueNext(m, upd.newQueue) /\ upd'.transfer = <<m>>
       /\ (upd.pc = "transferWait" /\ upd' # upd) =>
            LET m == upd.transfer[1] IN
            /\ upd'.transfer = <<>>
            /\ \/ InQueueNext(m, upd.newQueue)
               \/ /\ chans[m.r].Err = <<>>
                  /\ chans'[m.r].Err = <<newBifrostErrorFromMsg(MsgTransferFailed)>>
                  /\ hist'[m.r].published = hist[m.r].published + 1
       /\ (upd.oldQueue # 0 /\ queues'[upd.oldQueue].closes > queues[upd.oldQueue].closes) =>
            (upd.pc = "close" /\ upd.transfer = <<>>)]_vars

\* The old queue has been closed after a drain that moved a message into the
\* new queue and ended with a transfer error for another one.
C30_Witness ==
    /\ upd.pc = "waitWorkers"
    /\ queues[upd.oldQueue].closed
    /\ upd.transferred > 0
    /\ \E r \in Reqs : hist[r].transferErr /\ hist[r].buffered
    /\ \E r \in Reqs : hist[r].buffered /\ ~hist[r].transferErr

\* C31: no dispatcher ever sends on a provider queue that has been closed: a
\* dispatcher that obtained the queue from getProviderQueue before
\* UpdateProviderConcurrency closed it never executes its send on the closed
\* queue (a send on a closed channel panics, and so does a send that was
\* blocked when the channel was closed).
C31_NoSendOnClosedQueue ==
    \A r \in Reqs : disp[r].pc # "panic"

\* C32: every pre-hook that executed is paired with a post-hook run even when
\* the request is never admitted: when a try has ended because admission
\* failed (queue full, or cancelled while waiting for queue space) or because
\* the pre-hooks returned a nil request, the post-hooks have run over the
\* plugins whose pre-hook ran, in reverse order.
C32_PostHooksRunWhenNotAdmitted ==
    \A r \in Reqs :
        hist[r].ended \in {"admission", "nilreq"} =>
            hist[r].postRan = Reverse(hist[r].preRan)

\* The workers that consume queue q and have not returned.
LiveWorkersOn(q) ==
    {w \in 1..Len(workers) : workers[w].queue = q /\ workers[w].pc # "exited"}

\* C33: a provider queue that dispatchers can obtain (stored for the provider,
\* the provider's write lock free) always has workers consuming it; in
\* particular no worker-less queue stays stored when adapter creation failed,
\* so no request is admitted into a queue that nobody drains.
C33_ObtainableQueueHasWorkers ==
    \A p \in Providers :
        (requestQueues[p] # 0 /\ ~mutex[p]) => LiveWorkersOn(requestQueues[p]) # {}

\* The plugins listed in a sequence of plugin indices.
PluginsIn(ran) == {ran[i] : i \in 1..Len(ran)}

\* C34: a post-hook never runs for a plugin whose pre-hook did not run; in
\* particular, after a pre-hook returned a short-circuit object carrying
\* neither a response nor an error, the plugins after it are excluded from
\* the post-hook pass of that try.
C34_PostHookOnlyAfterPreHook ==
    \A r \in Reqs : PluginsIn(hist[r].postRan) \subseteq PluginsIn(hist[r].preRan)

\* C35: whenever at least one key passes the selector's filter for the model,
\* the selection returns one of those keys and neither fails nor crashes,
\* whatever the weights (>= 0) are: also with two or more candidates whose
\* weights are all zero or scale to an integer sum of zero.
C35_SelectorNeverFailsWithCandidates ==
    \A r \in Reqs :
        (hist[r].deqNo > 0 /\ Len(CandidatesOf(r)) >= 1) =>
            /\ hist[r].keyErr = ""
            /\ hist[r].key # <<>>
            /\ \E i \in 1..Len(CandidatesOf(r)) : hist[r].key[1] = CandidatesOf(r)[i]

\* The sinks of a channel message.
Sinks == {"Response", "Err", "ResponseStream"}

\* A value is sent into sink S of the channels caller r's dispatcher uses.
PublishedInto(r, S) == chans[r][S] = <<>> /\ chans'[r][S] # <<>>

\* C36: a caller only ever receives the outcome produced for its own
\* admission. Whenever a worker or the transfer goroutine sends a value into
\* a result, error or stream channel, the dispatcher that owns the channel
\* is in the final select of the admission the value was produced for: the
\* channel has not been released to its pool (the dispatcher has not
\* returned from the try) nor handed to a later try, no outcome was sent for
\* this admission before, and a response or stream names the provider and
\* model of that admission.
C36_OutcomeOnlyForOwnAdmission ==
    [][\A r \in Reqs : \A S \in Sinks :
          PublishedInto(r, S) =>
              /\ disp[r].pc = "await"
              /\ hist[r].admitted
              /\ hist[r].published = 0
              /\ S # "Err" =>
                    /\ chans'[r][S][1].provider = disp[r].provider
                    /\ chans'[r][S][1].model = disp[r].model]_vars

\* The transfer goroutine has sent its error into the channels of a caller
\* that waits in its final select, after another caller has received its
\* outcome from a worker and released its channels.
C36_Witness ==
    \E r, q \in Reqs :
        /\ r # q
        /\ disp[q].pc = "done" /\ hist[q].published = 1 /\ ~hist[q].transferErr
        /\ disp[r].pc = "await" /\ hist[r].transferErr
        /\ chans[r].Err = <<newBifrostErrorFromMsg(MsgTransferFailed)>>

\* The workers of provider p that have not returned.
LiveWorkersOf(p) ==
    {w \in 1..Len(workers) : workers[w].provider = p /\ workers[w].pc # "exited"}

\* The Concurrency the pool of queue q was started with: the reconfigured
\* value for the queue UpdateProviderConcurrency made or prepared, the
\* scenario's initial value for the others.
PoolConcurrency(q) ==
    IF q = upd.newQueue \/ (upd.pc = "done" /\ upd.oldQueue = 0 /\ q = requestQueues[upd.provider])
    THEN cfg.conc
    ELSE BaseCfg.conc

\* C37: during UpdateProviderConcurrency the workers of the old queue and
\* the workers of the new queue never run at the same time; the wait group
\* stored for a provider counts exactly the provider's live workers; and
\* the live workers of a pool never exceed the pool's configured concurrency.
C37_PoolsNeverOverlap ==
    /\ upd.oldQueue # 0 =>
          (LiveWorkersOn(upd.oldQueue) = {} \/ LiveWorkersOn(upd.newQueue) = {})
    /\ \A p \in Providers :
          waitGroups[p] # 0 => wgs[waitGroups[p]] = Cardinality(LiveWorkersOf(p))
    /\ \A q \in 1..Len(queues) : Cardinality(LiveWorkersOn(q)) <= PoolConcurrency(q)

\* The reconfiguration has replaced a queue that had workers: they have all
\* returned, the new workers are running and the stored wait group counts them.
C37_Witness ==
    /\ upd.pc = "done"
    /\ upd.oldQueue # 0
    /\ \E w \in 1..Len(workers) :
          workers[w].queue = upd.oldQueue /\ workers[w].pc = "exited"
    /\ LiveWorkersOn(upd.oldQueue) = {}
    /\ Cardinality(LiveWorkersOn(upd.newQueue)) = cfg.conc
    /\ wgs[waitGroups[upd.provider]] = cfg.conc

\* UpdateProviderConcurrency found no queue stored and prepared the provider.
UpdatePrepared == upd.pc = "done" /\ upd.oldQueue = 0

\* The number of times the primary provider was prepared lazily: by a
\* dispatcher's getProviderQueue or by UpdateProviderConcurrency.
LazyCreations ==
    Cardinality({r \in Reqs : hist[r].created}) + (IF UpdatePrepared THEN 1 ELSE 0)

\* C38: when several dispatchers concurrently ask for the queue of a provider
\* that has none, also while UpdateProviderConcurrency runs for it, the
\* provider is prepared exactly once: one queue and one set of workers are
\* made for it, and every dispatcher obtains that queue (or the queue a
\* reconfiguration has put in its place).
C38_LazyCreationHappensOnce ==
    /\ LazyCreations <= (IF cfg.initProviders = 0 THEN 1 ELSE 0)
    /\ Len(queues) <= 1 + (IF upd.newQueue # 0 THEN 1 ELSE 0)
    /\ \A q \in 1..Len(queues) :
          Cardinality({w \in 1..Len(workers) : workers[w].queue = q}) <= PoolConcurrency(q)
    /\ \A r \in Reqs :
          disp[r].queue # 0 =>
              /\ LazyCreations = (IF cfg.initProviders = 0 THEN 1 ELSE 0)
              /\ disp[r].queue \in {1, upd.newQueue}
              /\ Cardinality({w \in 1..Len(workers) : workers[w].queue = 1}) = PoolConcurrency(1)

\* A dispatcher found no queue on the read-locked path and is about to take
\* the write lock, while another dispatcher has meanwhile prepared the
\* provider and holds its queue.
C38_Witness ==
    \E r, q \in Reqs :
        /\ r # q
        /\ cfg.initProviders = 0
        /\ disp[r].pc = "lockQueue"
        /\ hist[q].created
        /\ disp[q].queue = requestQueues[PrimaryProvider]
        /\ Len(queues) = 1
        /\ Len(workers) = cfg.conc

\* UpdateProviderConcurrency is running and holds the provider's write lock.
UpdateRunning == upd.pc \in {"drain", "transferWait", "close", "waitWorkers"}

\* C39: UpdateProviderConcurrency always terminates and releases the
\* provider's write lock, whatever the dispatchers and the workers do
\* meanwhile (every adapter call that is in flight returns); and a
\* dispatcher that waits for the provider lock in getProviderQueue then
\* obtains the new queue and proceeds.
C39_UpdateTerminatesAndUnlocks ==
    /\ UpdateRunning ~> (upd.pc = "done" /\ ~mutex[upd.provider])
    /\ \A r \in Reqs :
          (disp[r].pc = "getQueue" /\ UpdateRunning) ~>
              (disp[r].pc = "preHooks" /\ disp[r].queue = upd.newQueue /\ ~mutex[upd.provider])

\* The reconfiguration has replaced a queue and returned with the lock
\* released; a caller whose request was in flight when it started has been
\* served, and a dispatcher holds the new queue.
C39_Witness ==
    /\ upd.pc = "done"
    /\ upd.oldQueue # 0
    /\ ~mutex[upd.provider]
    /\ \E r, q \in Reqs :
          /\ hist[q].inFlight /\ disp[q].pc = "done"
          /\ disp[r].queue = upd.newQueue

\* Caller r's dispatcher returns from a try after getChannelMessage: it
\* calls releaseChannelMessage on the way out of the admission select or of
\* the final select.
Releases(r) ==
    /\ disp[r].pc \in {"admit", "blocked", "await"}
    /\ disp'[r].pc = "decide"

====
